---- MODULE Spec2Model ----
(***************************************************************************)
(* Model of the extraction pipeline of BasePropertiesExtractor /          *)
(* PropertiesExtractor (src/base_properies_extractor.py,                  *)
(* src/properties_extractor.py) and of the helpers it calls.              *)
(*                                                                         *)
(* Data encoding.  Python values are encoded as records of one shape per  *)
(* kind of value, so that any two values that the code may compare are    *)
(* comparable here:                                                        *)
(*   - None (and an absent key read with .get) is the integer None;       *)
(*   - a JSON number is a positive integer;                                *)
(*   - a dict key that the code inspects character by character (a        *)
(*     property key, a family name of the verdict) is a sequence of       *)
(*     one-character strings;                                              *)
(*   - a Measurement, a material, a bundle, a verdict are records, each   *)
(*     with a field `dict` / `shape` that says what the JSON value        *)
(*     really is (a mapping, a bare array, a bare number ...).            *)
(***************************************************************************)
EXTENDS Integers, Sequences, FiniteSets, TLC

VARIABLES
    saved,      \* the five *_llm_output fields of the PropertiesExtractor
    pc,         \* the node of the graph that runs next ("idle" between runs)
    state,      \* the State dict of the run (self.state / the graph's channels)
    paper,      \* the paper folder of the run: its fulltext.txt and table files
    trace,      \* the nodes that ran in this run, in order
    invoked,    \* the stages whose llm.invoke was called in this run, in order
    files,      \* t.json, s.json, tables_output.json of the paper folder
    error_log,  \* what this run appended to judge_error_log.txt
    audit_log,  \* what this run appended to judge_validation_log.txt
    returned,   \* how each extraction method called in this run ended, in order
    call        \* a direct call of a method of the extractor: arguments and result

vars == <<saved, pc, state, paper, trace, invoked, files, error_log, audit_log, returned, call>>

(***************************************************************************)
(* Bounds of the model.                                                    *)
(***************************************************************************)
\* the numbers a Measurement or a flagged value may hold are 1..MaxVal
MaxVal == 2
\* the longest Measurement list of a material drawn for a direct call
MaxLen == 2
\* the largest total row count for which the table token budget is compared
MaxRows == 40
\* the largest number of materials in the t.json handed to compile_table
MaxGroup == 3

(***************************************************************************)
(* Scalars and strings.                                                    *)
(***************************************************************************)
\* Python's None; also what dict.get returns for an absent key
None == -1

Vals == 1..MaxVal

\* isinstance(x, (int, float)) for the scalars of the model
IsNumber(x) == x # None

\* str.lower() on one character
LowerChar(c) ==
    CASE c = "Z" -> "z"
      [] c = "T" -> "t"
      [] c = "S" -> "s"
      [] c = "P" -> "p"
      [] c = "F" -> "f"
      [] OTHER -> c

\* str.lower()
Lower(s) == [i \in 1..Len(s) |-> LowerChar(s[i])]

\* Python's `sub in s` for strings
Contains(s, sub) ==
    \E i \in 0..(Len(s) - Len(sub)) : SubSeq(s, i + 1, i + Len(sub)) = sub

\* the property keys of the extraction prompts
zt_values == <<"z", "t", "_", "v", "a", "l", "u", "e", "s">>
seebeck_coefficient ==
    <<"s", "e", "e", "b", "e", "c", "k", "_", "c", "o", "e", "f", "f", "i", "c", "i", "e", "n", "t">>
power_factor == <<"p", "o", "w", "e", "r", "_", "f", "a", "c", "t", "o", "r">>
compound_type == <<"c", "o", "m", "p", "o", "u", "n", "d", "_", "t", "y", "p", "e">>
doping == <<"d", "o", "p", "i", "n", "g">>

\* the family names of the verdict
ZT == <<"Z", "T">>
S == <<"S">>
PF == <<"P", "F">>
zt == <<"z", "t">>

(***************************************************************************)
(* Values: Measurements, materials, bundles.                               *)
(***************************************************************************)
\* a Measurement {"value": v, "ZT_temperature": t}
PlainEntry(v, t) == [dict |-> TRUE, value |-> v, fam |-> <<>>, fvalue |-> None, T |-> t]

\* a Measurement {"<F>_value": v, "<F>_Temperature": t}
FamEntry(F, v, t) == [dict |-> TRUE, value |-> None, fam |-> F, fvalue |-> v, T |-> t]

\* a list item that is no mapping (a bare number or string)
BareEntry(v) == [dict |-> FALSE, value |-> v, fam |-> <<>>, fvalue |-> None, T |-> None]

\* v.get("value")
GetValue(v) == v.value

\* v.get(f"{key}_value")
GetFamValue(v, key) == IF v.fam = key THEN v.fvalue ELSE None

\* the values of a material's properties
ListVal(items) == [kind |-> "list", items |-> items, s |-> ""]
StrVal(s) == [kind |-> "str", items |-> <<>>, s |-> s]
MapVal(s, items) == [kind |-> "map", items |-> items, s |-> s]

Prop(key, val) == [key |-> key, val |-> val]

\* a material record {"name": name, <key>: <val>, ...}, keys in insertion order
Material(name, props) == [dict |-> TRUE, name |-> name, props |-> props]

\* an item of a materials list that is no mapping
BareMaterial == [dict |-> FALSE, name |-> "", props |-> <<>>]

\* a value passed or returned as a bundle
NoneBundle == [shape |-> "none", mats |-> "missing", items |-> <<>>, extra |-> "", notes |-> ""]
Bundle(items) == [shape |-> "dict", mats |-> "list", items |-> items, extra |-> "", notes |-> ""]
NoMaterialsBundle == [shape |-> "dict", mats |-> "missing", items |-> <<>>, extra |-> "", notes |-> ""]
StrMaterialsBundle == [shape |-> "dict", mats |-> "str", items |-> <<>>, extra |-> "", notes |-> ""]
ArrayBundle(items) == [shape |-> "array", mats |-> "missing", items |-> items, extra |-> "", notes |-> ""]

\* bool(block.get("materials")); not defined for a bare array (list has no .get)
HasMaterials(block) ==
    \/ block.mats = "str"
    \/ block.mats = "list" /\ block.items # <<>>

\* isinstance(block["materials"], list)
MaterialsIsList(block) == block.mats = "list"

(***************************************************************************)
(* The capability's responses and robust_json_parse.                       *)
(***************************************************************************)
\* a response text that no decoder of robust_json_parse accepts
Garbage(dummy) == [form |-> "garbage", val |-> dummy]

\* a response text that decodes to val
Json(val) == [form |-> "json", val |-> val]

\* robust_json_parse: ok = FALSE stands for raise JSONParsingError
robust_json_parse(text) == [ok |-> text.form = "json", val |-> text.val]

\* what llm.invoke does when it is called: raise, or return a response
Raises(dummy) == [raises |-> TRUE, content |-> Garbage(dummy)]
Returns(text) == [raises |-> FALSE, content |-> text]

NoSaved(dummy) == [present |-> FALSE, content |-> Garbage(dummy)]
Saved(content) == [present |-> TRUE, content |-> content]

(***************************************************************************)
(* The verdict of the judge.                                               *)
(***************************************************************************)
\* one family's entry of a material's flags: "<key>": [bad, ...]
Fam(key, bad) == [key |-> key, bad |-> bad]

\* a material's flags {"<key>": [...], ...}; dict = FALSE: not a mapping
Flags(fams) == [dict |-> TRUE, fams |-> fams]
BadFlags == [dict |-> FALSE, fams |-> <<>>]

\* an entry of a temp_mismatch list {"value": v, "reported_T": r, "found_T": f}
Mismatch(v, r, f) == [dict |-> TRUE, value |-> v, reported_T |-> r, found_T |-> f]
BareMismatch(v) == [dict |-> FALSE, value |-> v, reported_T |-> None, found_T |-> None]

\* verdict.get(<which>, {}) or {}; dict = FALSE: a non-empty value that is no mapping
FlagMap(by) == [dict |-> TRUE, by |-> by]
BadFlagMap == [dict |-> FALSE, by |-> <<>>]
NoFlags == FlagMap(<<>>)

Verdict(correct, incorrect, temp_mismatch, structure_ok, notes) ==
    [dict |-> TRUE, correct |-> correct, incorrect |-> incorrect,
     temp_mismatch |-> temp_mismatch, structure_ok |-> structure_ok, notes |-> notes]

\* a response that parses to a value that is no mapping (a bare array)
ArrayVerdict ==
    [dict |-> FALSE, correct |-> NoFlags, incorrect |-> NoFlags,
     temp_mismatch |-> NoFlags, structure_ok |-> {}, notes |-> ""]

\* a lookup that takes the flags of whatever name the mapping holds
FlagsOfAnyName(map, name) ==
    IF DOMAIN map.by # {} THEN map.by[CHOOSE n \in DOMAIN map.by : TRUE] ELSE Flags(<<>>)

\* <which>.get(name, {})
FlagsOf(map, name) == IF name \in DOMAIN map.by THEN map.by[name] ELSE Flags(<<>>)

(***************************************************************************)
(* PropertiesExtractor.judge_verify_properties: the local filtering.       *)
(* The loops thread st = [mat, lines, err]: the material being mutated in  *)
(* place, the log lines appended so far, and whether an exception was      *)
(* raised (after which nothing more is done).                              *)
(***************************************************************************)
Line(tag, name, key, val, reported_T, found_T) ==
    [tag |-> tag, name |-> name, key |-> key, val |-> val,
     reported_T |-> reported_T, found_T |-> found_T]

\* st once an exception is raised
Failed(st) == [st EXCEPT !.err = TRUE]

\* key.lower() in prop_key.lower() and isinstance(mat[prop_key], list)
KeyMatches(key, prop) == Contains(Lower(prop.key), Lower(key)) /\ prop.val.kind = "list"

\* a comparison that reads the `value` field only
IsIncorrectByValueOnly(v, key, bad_values) ==
    \E i \in 1..Len(bad_values) : IsNumber(bad_values[i]) /\ bad_values[i] = GetValue(v)

\* the any(...) of the list comprehension: v is dropped as incorrect
IsIncorrect(v, key, bad_values) ==
    \E i \in 1..Len(bad_values) :
        \/ IsNumber(bad_values[i]) /\ bad_values[i] = GetValue(v)
        \/ IsNumber(bad_values[i]) /\ bad_values[i] = GetFamValue(v, key)

\* the comprehension calls v.get on an item that is no mapping
IncorrectRaises(items, bad_values) ==
    /\ \E i \in 1..Len(items) : ~items[i].dict
    /\ \E j \in 1..Len(bad_values) : IsNumber(bad_values[j])

\* the comprehension over mat[prop_key]
KeepNotIncorrect(items, key, bad_values) ==
    SelectSeq(items, LAMBDA v : ~IsIncorrect(v, key, bad_values))

\* `for val in bad_values: log_lines.append("[removed] ...")`
RemovedLines(name, key, bad_values) ==
    [i \in 1..Len(bad_values) |-> Line("removed", name, key, bad_values[i], None, None)]

\* mat[prop_key] = after, then the [removed] lines `if before > after`
AssignNotIncorrect(st, key, bad_values, p, before, after) ==
    [st EXCEPT
        !.mat.props[p].val.items = after,
        !.lines = IF Len(before) > Len(after)
                  THEN @ \o RemovedLines(st.mat.name, key, bad_values)
                  ELSE @]

\* the filtering of the list `items` held under the property at p
FilterIncorrect(st, key, bad_values, p, items) ==
    IF IncorrectRaises(items, bad_values) THEN Failed(st)
    ELSE AssignNotIncorrect(st, key, bad_values, p, items,
                            KeepNotIncorrect(items, key, bad_values))

\* the body of `for prop_key in list(mat.keys())` of the incorrect pass
RemoveIncorrectProp(st, key, bad_values, p) ==
    IF st.err \/ ~KeyMatches(key, st.mat.props[p]) THEN st
    ELSE FilterIncorrect(st, key, bad_values, p, st.mat.props[p].val.items)

RECURSIVE RemoveIncorrectProps(_, _, _, _)
RemoveIncorrectProps(st, key, bad_values, p) ==
    IF p > Len(st.mat.props) THEN st
    ELSE RemoveIncorrectProps(RemoveIncorrectProp(st, key, bad_values, p), key, bad_values, p + 1)

\* `for key, bad_values in mat_incorrect.items()`
RECURSIVE RemoveIncorrect(_, _, _)
RemoveIncorrect(st, fams, k) ==
    IF k > Len(fams) THEN st
    ELSE RemoveIncorrect(RemoveIncorrectProps(st, fams[k].key, fams[k].bad, 1), fams, k + 1)

\* the comprehension of the temp-mismatch pass keeps v
KeepsTemp(v, key, val) == val # GetValue(v) /\ val # GetFamValue(v, key)

KeepNotMismatched(items, key, val) ==
    SelectSeq(items, LAMBDA v : KeepsTemp(v, key, val))

\* the comprehension calls v.get on an item that is no mapping
MismatchRaises(items) == \E i \in 1..Len(items) : ~items[i].dict

\* mat[prop_key] = [...], then the [temp-mismatch] line
AssignNotMismatched(st, key, bad, p, items) ==
    [st EXCEPT
        !.mat.props[p].val.items = KeepNotMismatched(items, key, bad.value),
        !.lines = Append(@, Line("temp-mismatch", st.mat.name, key, bad.value,
                                 bad.reported_T, bad.found_T))]

\* the body of `for bad in mismatch_list`, for the property at p
RemoveMismatchBad(st, key, bad, p) ==
    IF st.err THEN st
    ELSE IF ~bad.dict \/ MismatchRaises(st.mat.props[p].val.items) THEN Failed(st)
    ELSE AssignNotMismatched(st, key, bad, p, st.mat.props[p].val.items)

RECURSIVE RemoveMismatchBads(_, _, _, _, _)
RemoveMismatchBads(st, key, mismatch_list, p, b) ==
    IF b > Len(mismatch_list) THEN st
    ELSE RemoveMismatchBads(RemoveMismatchBad(st, key, mismatch_list[b], p),
                            key, mismatch_list, p, b + 1)

\* the body of `for prop_key in list(mat.keys())` of the temp-mismatch pass
RemoveMismatchProp(st, key, mismatch_list, p) ==
    IF st.err \/ ~KeyMatches(key, st.mat.props[p]) THEN st
    ELSE RemoveMismatchBads(st, key, mismatch_list, p, 1)

RECURSIVE RemoveMismatchProps(_, _, _, _)
RemoveMismatchProps(st, key, mismatch_list, p) ==
    IF p > Len(st.mat.props) THEN st
    ELSE RemoveMismatchProps(RemoveMismatchProp(st, key, mismatch_list, p),
                             key, mismatch_list, p + 1)

\* `for key, mismatch_list in mat_temp_mismatch.items()`
RECURSIVE RemoveTempMismatch(_, _, _)
RemoveTempMismatch(st, fams, k) ==
    IF k > Len(fams) THEN st
    ELSE RemoveTempMismatch(RemoveMismatchProps(st, fams[k].key, fams[k].bad, 1), fams, k + 1)

\* `for key, ok_values in mat_correct.items(): for val in ok_values`
RECURSIVE OkLines(_, _, _)
OkLines(name, fams, k) ==
    IF k > Len(fams) THEN <<>>
    ELSE [i \in 1..Len(fams[k].bad) |-> Line("ok", name, fams[k].key, fams[k].bad[i], None, None)]
         \o OkLines(name, fams, k + 1)

\* name = mat.get("name", ""), then the three <which>.get(name, {})
LookupRaises(mat, verdict) ==
    ~mat.dict \/ ~verdict.incorrect.dict \/ ~verdict.temp_mismatch.dict \/ ~verdict.correct.dict

\* "Remove incorrect numeric values"
IncorrectPass(st, mat_incorrect) ==
    IF st.err THEN st
    ELSE IF ~mat_incorrect.dict THEN Failed(st)
    ELSE RemoveIncorrect(st, mat_incorrect.fams, 1)

\* "Remove temperature-mismatched values"
MismatchPass(st, mat_temp_mismatch) ==
    IF st.err THEN st
    ELSE IF ~mat_temp_mismatch.dict THEN Failed(st)
    ELSE RemoveTempMismatch(st, mat_temp_mismatch.fams, 1)

\* "Log correct and structural info": the [ok] lines
CorrectPass(st, mat_correct) ==
    IF st.err THEN st
    ELSE IF ~mat_correct.dict THEN Failed(st)
    ELSE [st EXCEPT !.lines = @ \o OkLines(st.mat.name, mat_correct.fams, 1)]

\* `if name in structure_ok`
StructurePass(st, structure_ok) ==
    IF ~st.err /\ st.mat.name \in structure_ok
    THEN [st EXCEPT !.lines = Append(@, Line("structure_ok", st.mat.name, <<>>, None, None, None))]
    ELSE st

\* the body of `for mat in merged["materials"]`
FilterMaterial(mat, lines, verdict) ==
    IF LookupRaises(mat, verdict) THEN [mat |-> mat, lines |-> lines, err |-> TRUE]
    ELSE StructurePass(
             CorrectPass(
                 MismatchPass(
                     IncorrectPass([mat |-> mat, lines |-> lines, err |-> FALSE],
                                   FlagsOf(verdict.incorrect, mat.name)),
                     FlagsOf(verdict.temp_mismatch, mat.name)),
                 FlagsOf(verdict.correct, mat.name)),
             verdict.structure_ok)

\* the loop over merged["materials"]: work is the list whose items are mutated
RECURSIVE FilterMaterials(_, _, _, _)
RECURSIVE FilterNext(_, _, _, _)
FilterMaterials(work, lines, verdict, i) ==
    IF i > Len(work) THEN [work |-> work, lines |-> lines, err |-> FALSE]
    ELSE FilterNext(work, verdict, i, FilterMaterial(work[i], lines, verdict))

\* work[i] is now st.mat: stop on an exception, else go on with the next material
FilterNext(work, verdict, i, st) ==
    IF st.err THEN [work |-> [work EXCEPT ![i] = st.mat], lines |-> st.lines, err |-> TRUE]
    ELSE FilterMaterials([work EXCEPT ![i] = st.mat], st.lines, verdict, i + 1)

(***************************************************************************)
(* PropertiesExtractor.judge_verify_properties as a whole.                 *)
(***************************************************************************)
\* os.getcwd() and os.path.basename(os.getcwd())
Cwd == "/work/cwd"
CwdBase == "cwd"

\* a stage that asks the capability whatever it has saved
ResponseOfFresh(llm, saved_out) == llm.content

\* the response a stage works on: the saved one when present, else llm.invoke's
ResponseOf(llm, saved_out) == IF saved_out.present THEN saved_out.content ELSE llm.content

\* llm.invoke is called and raises
InvokeRaises(llm, saved_out) == ~saved_out.present /\ llm.raises

\* `if block and block.get("materials")` calls .get on a non-empty bare array
MergeRaises(block) == block.shape = "array" /\ block.items # <<>>

\* what merged["materials"].extend(block["materials"]) appends for one block
Extension(block) ==
    IF block.shape # "dict" \/ ~HasMaterials(block) THEN <<>>
    ELSE IF block.mats = "list" THEN block.items
    ELSE <<BareMaterial>>

\* a merge that puts the table materials before the structure materials
MergedMaterialsTableFirst(thermo_json, structure_json, table_json) ==
    Extension(thermo_json) \o Extension(table_json) \o Extension(structure_json)

\* merged["materials"] after the loop over (thermo_json, structure_json, table_json)
MergedMaterials(thermo_json, structure_json, table_json) ==
    Extension(thermo_json) \o Extension(structure_json) \o Extension(table_json)

\* a block after the call: the materials it shares with the working list are
\* the (mutated) items of work from offset `from` on
Aliased(block, work, from) ==
    IF block.shape = "dict" /\ block.mats = "list" /\ block.items # <<>>
    THEN [block EXCEPT !.items = SubSeq(work, from + 1, from + Len(block.items))]
    ELSE block

\* the entry written to judge_error_log.txt by the except branch of the parse
ParseErrorEntry(folder_name, error, raw) ==
    [by |-> "judge_verify_properties",
     folder |-> IF folder_name # "" THEN folder_name ELSE Cwd,
     error |-> error, has_raw |-> TRUE, raw |-> raw]

\* the block written to judge_validation_log.txt
AuditBlock(folder_name, lines) ==
    [folder |-> IF folder_name # "" THEN folder_name ELSE CwdBase, lines |-> lines]

\* the outcome of a call ("return" or "raise"), the exception raised inside it
\* ("capability" when llm.invoke raised, else its class; "" when none), the
\* value returned, the three argument bundles as the call leaves them, what was
\* appended to the two logs, whether llm.invoke was called, and
\* self.judge_llm_output afterwards
JudgeResult(outcome, error, ret, thermo, structure, table, errs, audits, inv, saved_out) ==
    [outcome |-> outcome, error |-> error, ret |-> ret, thermo |-> thermo,
     structure |-> structure, table |-> table, error_log |-> errs, audit_log |-> audits,
     invoked |-> inv, saved |-> saved_out]

\* {"materials": [], "deleted": [], "notes": "No materials to judge."}
NothingToJudge ==
    [Bundle(<<>>) EXCEPT !.extra = "deleted_notes", !.notes = "No materials to judge."]

\* a fallback that returns the working list without writing the error log
JudgeFallbackUnlogged(t, s, b, folder_name, saved_out, merged, content, error) ==
    JudgeResult("return", error, Bundle(merged), t, s, b, <<>>, <<>>, ~saved_out.present,
                saved_out)

\* a fallback that saves the response it could not use
JudgeFallbackSaving(t, s, b, folder_name, saved_out, merged, content, error) ==
    JudgeResult("return", error, Bundle(merged), t, s, b,
                <<ParseErrorEntry(folder_name, error, content)>>, <<>>,
                ~saved_out.present, Saved(content))

\* the except branch of the parse: log, then `return merged`
JudgeFallback(t, s, b, folder_name, saved_out, merged, content, error) ==
    JudgeResult("return", error, Bundle(merged), t, s, b,
                <<ParseErrorEntry(folder_name, error, content)>>, <<>>,
                ~saved_out.present, saved_out)

\* after the filtering loop `run`: an exception leaves the method, or the log is
\* written, the response saved and {"materials": cleaned, "notes": notes} returned
JudgeFiltered(t, s, b, folder_name, saved_out, content, notes, run) ==
    IF run.err
    THEN JudgeResult("raise", "AttributeError", NoneBundle,
                     Aliased(t, run.work, 0),
                     Aliased(s, run.work, Len(Extension(t))),
                     Aliased(b, run.work, Len(Extension(t)) + Len(Extension(s))),
                     <<>>, <<>>, ~saved_out.present, saved_out)
    ELSE JudgeResult("return", "",
                     [Bundle(run.work) EXCEPT !.extra = "notes", !.notes = notes],
                     Aliased(t, run.work, 0),
                     Aliased(s, run.work, Len(Extension(t))),
                     Aliased(b, run.work, Len(Extension(t)) + Len(Extension(s))),
                     <<>>, <<AuditBlock(folder_name, run.lines)>>,
                     ~saved_out.present, Saved(content))

\* a parse whose JSONParsingError leaves the method
JudgeParsedRaising(t, s, b, folder_name, saved_out, merged, content, parsed) ==
    IF ~parsed.ok
    THEN JudgeResult("raise", "JSONParsingError", NoneBundle, t, s, b, <<>>, <<>>,
                     ~saved_out.present, saved_out)
    ELSE IF ~parsed.val.dict
    THEN JudgeFallback(t, s, b, folder_name, saved_out, merged, content, "ValueError")
    ELSE JudgeFiltered(t, s, b, folder_name, saved_out, content, parsed.val.notes,
                       FilterMaterials(merged, <<>>, parsed.val, 1))

\* "Parse output safely", for the parse result `parsed` of the response
JudgeParsed(t, s, b, folder_name, saved_out, merged, content, parsed) ==
    IF ~parsed.ok
    THEN JudgeFallback(t, s, b, folder_name, saved_out, merged, content, "JSONParsingError")
    ELSE IF ~parsed.val.dict
    THEN JudgeFallback(t, s, b, folder_name, saved_out, merged, content, "ValueError")
    ELSE JudgeFiltered(t, s, b, folder_name, saved_out, content, parsed.val.notes,
                       FilterMaterials(merged, <<>>, parsed.val, 1))

\* "Run model", for the response text `content`
JudgeResponse(t, s, b, folder_name, saved_out, merged, content) ==
    JudgeParsed(t, s, b, folder_name, saved_out, merged, content, robust_json_parse(content))

\* a method that asks the capability even for an empty working list
JudgeMergedNoEmptyCheck(t, s, b, llm, folder_name, saved_out, merged) ==
    IF InvokeRaises(llm, saved_out)
    THEN JudgeResult("raise", "capability", NoneBundle, t, s, b, <<>>, <<>>, TRUE, saved_out)
    ELSE JudgeResponse(t, s, b, folder_name, saved_out, merged, ResponseOf(llm, saved_out))

\* the method once merged["materials"] is built
JudgeMerged(t, s, b, llm, folder_name, saved_out, merged) ==
    IF merged = <<>>
    THEN JudgeResult("return", "", NothingToJudge, t, s, b, <<>>, <<>>, FALSE, saved_out)
    ELSE IF InvokeRaises(llm, saved_out)
    THEN JudgeResult("raise", "capability", NoneBundle, t, s, b, <<>>, <<>>, TRUE, saved_out)
    ELSE JudgeResponse(t, s, b, folder_name, saved_out, merged, ResponseOf(llm, saved_out))

\* judge_verify_properties(fulltext, thermo_json, structure_json, table_json, llm,
\* folder_name), with self.judge_llm_output = saved_out and llm.invoke behaving
\* as llm says
judge_verify_properties(thermo_json, structure_json, table_json, llm, folder_name, saved_out) ==
    IF MergeRaises(thermo_json) \/ MergeRaises(structure_json) \/ MergeRaises(table_json)
    THEN JudgeResult("raise", "AttributeError", NoneBundle, thermo_json, structure_json,
                     table_json, <<>>, <<>>, FALSE, saved_out)
    ELSE JudgeMerged(thermo_json, structure_json, table_json, llm, folder_name, saved_out,
                     MergedMaterials(thermo_json, structure_json, table_json))

(***************************************************************************)
(* Inputs drawn for direct calls of judge_verify_properties.               *)
(***************************************************************************)
SeqsUpTo(X, n) == UNION {[1..k -> X] : k \in 0..n}

\* the temperature fields of the Measurements: the first of a list was
\* measured at 300, the others at 700
TempAt(i) == IF i = 1 THEN 300 ELSE 700

\* zt_values lists [{"value": v, "ZT_temperature": t}, ...]
ZtLists ==
    {[i \in 1..Len(vs) |-> PlainEntry(vs[i], TempAt(i))] : vs \in SeqsUpTo(Vals \cup {None}, MaxLen)}

\* the seebeck_coefficient list [{"S_value": 1, "S_Temperature": 300}]
SeebeckList == <<FamEntry(S, 1, 300)>>

ThermoMaterial(z, sb) ==
    Material("A", <<Prop(zt_values, ListVal(z)), Prop(seebeck_coefficient, ListVal(sb))>>)

StructureMaterial(name) ==
    Material(name, <<Prop(compound_type, StrVal("cubic")),
                     Prop(doping, MapVal("n-type", <<BareEntry(1)>>))>>)

TableMaterial(name) ==
    Material(name, <<Prop(zt_values, ListVal(<<PlainEntry(1, 300), PlainEntry(2, 700)>>)),
                     Prop(power_factor, ListVal(<<FamEntry(PF, 1, 300)>>)),
                     Prop(compound_type, StrVal("cubic"))>>)

\* well-formed bundles
ThermoInputs == {Bundle(<<ThermoMaterial(z, SeebeckList)>>) : z \in ZtLists}
StructureInputs == {Bundle(<<StructureMaterial("A")>>)}
TableInputs == {NoneBundle, Bundle(<<TableMaterial("A")>>)}

\* bundles that are absent, empty or malformed
OddInputs ==
    {<<NoneBundle, NoneBundle, NoneBundle>>,
     <<Bundle(<<>>), NoneBundle, Bundle(<<>>)>>,
     <<Bundle(<<>>), NoMaterialsBundle, ArrayBundle(<<>>)>>,
     <<NoneBundle, Bundle(<<StructureMaterial("A")>>), NoneBundle>>,
     <<Bundle(<<ThermoMaterial(<<PlainEntry(1, 300), PlainEntry(2, 700)>>, <<>>)>>),
       Bundle(<<StructureMaterial("B")>>), Bundle(<<TableMaterial("B")>>)>>,
     <<Bundle(<<ThermoMaterial(<<PlainEntry(1, 300)>>, <<>>)>>), StrMaterialsBundle, NoneBundle>>,
     <<Bundle(<<ThermoMaterial(<<PlainEntry(1, 300)>>, <<>>)>>), NoneBundle,
       ArrayBundle(<<TableMaterial("A")>>)>>,
     <<Bundle(<<ThermoMaterial(<<PlainEntry(1, 300)>>, <<>>), BareMaterial>>), NoneBundle, NoneBundle>>,
     <<Bundle(<<ThermoMaterial(<<PlainEntry(1, 300)>>, <<>>),
                Material("B", <<Prop(zt_values, ListVal(<<PlainEntry(1, 300), BareEntry(1)>>))>>)>>),
       NoneBundle, NoneBundle>>}

JudgeInputs ==
    {<<t, s, b>> : t \in ThermoInputs, s \in StructureInputs, b \in TableInputs} \cup OddInputs

\* the lists of flagged values of one family
BadLists ==
    {<<v>> : v \in Vals \cup {None}} \cup {p \in Vals \X Vals : p[1] # p[2]}

\* verdict["incorrect"]["A"]
IncorrectFlags ==
    {Flags(<<>>), BadFlags}
    \cup {Flags(<<Fam(k, bad)>>) : k \in {ZT, S, zt}, bad \in BadLists}
    \cup {Flags(<<Fam(ZT, <<v>>), Fam(S, <<1>>)>>) : v \in Vals}

\* verdict["temp_mismatch"]["A"]
MismatchFlags ==
    {Flags(<<>>), BadFlags, Flags(<<Fam(ZT, <<BareMismatch(1)>>)>>),
     Flags(<<Fam(ZT, <<Mismatch(1, 300, 700), Mismatch(2, 300, 700)>>)>>)}
    \cup {Flags(<<Fam(ZT, <<Mismatch(v, 300, 700)>>)>>) : v \in Vals \cup {None}}
    \cup {Flags(<<Fam(S, <<Mismatch(v, 300, 700)>>)>>) : v \in Vals}

\* verdicts about material "A": any two sets of flags, and any incorrect flags
\* next to confirmed values and a confirmed structure
VerdictsA ==
    {Verdict(NoFlags, FlagMap([n \in {"A"} |-> inc]), FlagMap([n \in {"A"} |-> tm]),
             {}, "checked")
        : inc \in IncorrectFlags, tm \in MismatchFlags}
    \cup {Verdict(FlagMap([n \in {"A"} |-> Flags(<<Fam(ZT, <<1>>)>>)]),
                  FlagMap([n \in {"A"} |-> inc]), NoFlags, {"A"}, "checked")
            : inc \in IncorrectFlags}

\* verdicts about material "B", or of an odd shape
OddVerdicts ==
    {Verdict(NoFlags, NoFlags, NoFlags, {}, ""),
     Verdict(NoFlags, BadFlagMap, NoFlags, {}, ""),
     Verdict(NoFlags, NoFlags, BadFlagMap, {}, ""),
     Verdict(BadFlagMap, NoFlags, NoFlags, {}, ""),
     Verdict(FlagMap([n \in {"A"} |-> BadFlags]),
             FlagMap([n \in {"A"} |-> Flags(<<Fam(ZT, <<1>>)>>)]), NoFlags, {}, ""),
     Verdict(NoFlags, FlagMap([n \in {"B"} |-> Flags(<<Fam(ZT, <<1>>)>>)]), NoFlags, {"B"}, ""),
     Verdict(NoFlags,
             FlagMap([n \in {"A", "B"} |->
                        IF n = "A" THEN Flags(<<Fam(ZT, <<1>>)>>) ELSE BadFlags]),
             NoFlags, {}, "")}

\* what llm.invoke may do when the judge calls it
JudgeResponses ==
    {Raises(ArrayVerdict), Returns(Garbage(ArrayVerdict)), Returns(Json(ArrayVerdict))}
    \cup {Returns(Json(v)) : v \in VerdictsA \cup OddVerdicts}

(***************************************************************************)
(* The extraction methods of PropertiesExtractor.  Each takes what         *)
(* llm.invoke would do (llm) and the stage's saved response (saved_out),   *)
(* and yields the outcome, the returned value, whether llm.invoke was      *)
(* called, and the saved response afterwards.  `error` names the exception *)
(* raised inside the method, whether it leaves the method (outcome         *)
(* "raise") or is caught by it: "capability" when llm.invoke raised, else  *)
(* the class of the exception; "" when none was raised.                    *)
(***************************************************************************)
StageResult(outcome, error, ret, inv, saved_out) ==
    [outcome |-> outcome, error |-> error, ret |-> ret, invoked |-> inv, saved |-> saved_out]

\* an item of the "materials" array of the discovery response
NameItem(str, pad) == [isstr |-> TRUE, s |-> str, pad |-> pad]
NumberItem == [isstr |-> FALSE, s |-> "", pad |-> FALSE]

\* a strip that leaves the surrounding whitespace where it is
StripNothing(m) == IF m.pad THEN " " \o m.s \o " " ELSE m.s

\* m.strip(): an item is the text m.s with whitespace around it when m.pad;
\* strip keeps the text and drops the whitespace around it
Strip(m) == m.s

\* `not m or not isinstance(m, str)`: the item is skipped before strip
SkippedItem(m) == ~m.isstr \/ (m.s = "" /\ ~m.pad)

\* the loop `for m in mats` of extract_material_candidates
RECURSIVE UniqueNames(_, _, _)
UniqueNames(mats, i, result) ==
    IF i > Len(mats) THEN result
    ELSE LET key == Strip(mats[i])
             seen == {result[j] : j \in 1..Len(result)}
         IN  IF SkippedItem(mats[i]) \/ key = "" \/ key \in seen
             THEN UniqueNames(mats, i + 1, result)
             ELSE UniqueNames(mats, i + 1, Append(result, key))

\* extract_material_candidates(fulltext, llm, max_materials)
extract_material_candidates(llm, saved_out, max_materials) ==
    LET content == ResponseOf(llm, saved_out)
        data == robust_json_parse(content)
        mats == IF data.val.mats = "list" THEN data.val.items ELSE <<>>
    IN  IF InvokeRaises(llm, saved_out)
        THEN StageResult("raise", "capability", <<>>, TRUE, saved_out)
        ELSE IF ~data.ok
        THEN StageResult("raise", "JSONParsingError", <<>>, ~saved_out.present, saved_out)
        ELSE IF data.val.shape # "dict"
        THEN StageResult("raise", "AttributeError", <<>>, ~saved_out.present, saved_out)
        ELSE StageResult("return", "", UniqueNames(mats, 1, <<>>), ~saved_out.present,
                         Saved(content))

\* extract_thermo_properties(fulltext, llm, material_names)
extract_thermo_properties(llm, saved_out) ==
    LET content == ResponseOf(llm, saved_out)
        json_parsed == robust_json_parse(content)
    IN  IF InvokeRaises(llm, saved_out)
        THEN StageResult("raise", "capability", NoneBundle, TRUE, saved_out)
        ELSE IF ~json_parsed.ok
        THEN StageResult("raise", "JSONParsingError", NoneBundle, ~saved_out.present, saved_out)
        ELSE StageResult("return", "", json_parsed.val, ~saved_out.present, Saved(content))

\* extract_structural_properties(fulltext, llm, material_names)
extract_structural_properties(llm, saved_out) ==
    LET content == ResponseOf(llm, saved_out)
        json_parsed == robust_json_parse(content)
    IN  IF InvokeRaises(llm, saved_out)
        THEN StageResult("raise", "capability", NoneBundle, TRUE, saved_out)
        ELSE IF ~json_parsed.ok
        THEN StageResult("raise", "JSONParsingError", NoneBundle, ~saved_out.present, saved_out)
        ELSE StageResult("return", "", json_parsed.val, ~saved_out.present, Saved(content))

\* a table extraction without its `if not table_data` test
extract_from_tablesNoEmptyCheck(table_data, llm, saved_out) ==
    IF InvokeRaises(llm, saved_out)
    THEN StageResult("return", "capability", Bundle(<<>>), TRUE, saved_out)
    ELSE IF ~robust_json_parse(ResponseOf(llm, saved_out)).ok
    THEN StageResult("return", "JSONParsingError", Bundle(<<>>), ~saved_out.present, saved_out)
    ELSE StageResult("return", "", robust_json_parse(ResponseOf(llm, saved_out)).val,
                     ~saved_out.present, Saved(ResponseOf(llm, saved_out)))

\* extract_from_tables(table_data, llm, material_names)
extract_from_tables(table_data, llm, saved_out) ==
    LET content == ResponseOf(llm, saved_out)
        json_parsed == robust_json_parse(content)
    IN  IF table_data = <<>> THEN StageResult("return", "", Bundle(<<>>), FALSE, saved_out)
        ELSE IF InvokeRaises(llm, saved_out)
        THEN StageResult("return", "capability", Bundle(<<>>), TRUE, saved_out)
        ELSE IF ~json_parsed.ok
        THEN StageResult("return", "JSONParsingError", Bundle(<<>>), ~saved_out.present,
                         saved_out)
        ELSE StageResult("return", "", json_parsed.val, ~saved_out.present, Saved(content))

(***************************************************************************)
(* BasePropertiesExtractor: constants, the State dict, the paper folder.   *)
(***************************************************************************)
MAX_MATERIALS == 30
FIND_MATERIALS_MAX_TOKENS == 51200
DEFAULT_TOKEN_COUNT == 1998

\* fulltext = None
NoText == "<None>"

\* _generate_empty_state; None is <<>> for a list, NoneBundle for a bundle,
\* 0 for the llm (the llm is modelled by its max_tokens)
_generate_empty_state(paper_folder) ==
    [folder |-> paper_folder, fulltext |-> NoText, llm |-> 0, material_names |-> <<>>,
     thermo |-> NoneBundle, structure |-> NoneBundle, retries |-> 0, skip |-> FALSE,
     table_data |-> <<>>, table_json_output |-> NoneBundle, total_table_rows |-> 0]

\* table<i>.csv and table<i>_caption.txt of a folder: whether each exists,
\* whether reading them succeeds, and the number of rows of the csv
TableFiles(csv, caption, loads, rows) ==
    [csv |-> csv, caption |-> caption, loads |-> loads, rows |-> rows]

TableDirs ==
    {<<>>,
     <<TableFiles(TRUE, TRUE, TRUE, 1)>>,
     <<TableFiles(TRUE, TRUE, FALSE, 1)>>,
     <<TableFiles(TRUE, FALSE, TRUE, 1), TableFiles(TRUE, TRUE, TRUE, 1)>>,
     <<TableFiles(TRUE, TRUE, TRUE, 1), TableFiles(TRUE, TRUE, TRUE, 30)>>,
     <<TableFiles(TRUE, TRUE, FALSE, 1), TableFiles(TRUE, TRUE, TRUE, 1)>>,
     <<TableFiles(TRUE, TRUE, TRUE, 1), TableFiles(FALSE, TRUE, TRUE, 1),
       TableFiles(TRUE, TRUE, TRUE, 1)>>}

\* the paper folders handed to extract_properties
Papers ==
    {[folder |-> "paper1", fulltext |-> t, tables |-> d] : t \in {"", "text"}, d \in TableDirs}

NoPaper == [folder |-> "", fulltext |-> "", tables |-> <<>>]

\* a file of the paper folder
Absent == [exists |-> FALSE, data |-> NoneBundle]
Written(data) == [exists |-> TRUE, data |-> data]
NoFiles == [t_json |-> Absent, s_json |-> Absent, tables_output_json |-> Absent]

\* the *_llm_output fields after __init__ and after reset()
NoSavedOutputs ==
    [materials_extraction_llm_output |-> NoSaved(NoMaterialsBundle),
     thermo_properties_extraction_llm_output |-> NoSaved(NoMaterialsBundle),
     structure_properties_extraction_llm_output |-> NoSaved(NoMaterialsBundle),
     table_data_extraction_llm_output |-> NoSaved(NoMaterialsBundle),
     judge_llm_output |-> NoSaved(ArrayVerdict)]

\* no direct call of a method
NoCall ==
    [op |-> "none", thermo_json |-> NoneBundle, structure_json |-> NoneBundle,
     table_json |-> NoneBundle, folder_name |-> "", llm |-> Raises(ArrayVerdict),
     done |-> FALSE,
     res |-> JudgeResult("none", "", NoneBundle, NoneBundle, NoneBundle, NoneBundle,
                         <<>>, <<>>, FALSE, NoSaved(ArrayVerdict))]

\* the threshold ladder of _token_estimation
TokenLadder(token_count) ==
    LET extra == (token_count - 3000) \div 1000
        max_tok == 1024 + (512 * (extra + 1))
    IN  IF token_count <= 1000 THEN 786
        ELSE IF token_count <= 3000 THEN 1024
        ELSE IF max_tok < 5120 THEN max_tok ELSE 5120

\* _token_estimation: its last assignment overwrites the ladder's value
_token_estimation(token_count) ==
    LET max_tok == TokenLadder(token_count)
        overwritten == FIND_MATERIALS_MAX_TOKENS
    IN  overwritten

\* an enumeration that goes on past an index whose files are missing
RECURSIVE ReadTablesPastMissing(_, _, _)
ReadTablesPastMissing(tables, i, table_data) ==
    IF i > Len(tables) THEN table_data
    ELSE IF tables[i].csv /\ tables[i].caption /\ tables[i].loads
         THEN ReadTablesPastMissing(tables, i + 1,
                  Append(table_data, [filename |-> i, row_count |-> tables[i].rows]))
         ELSE ReadTablesPastMissing(tables, i + 1, table_data)

\* the while loop of _count_table_and_plan_tokens_node over table1, table2, ...
RECURSIVE ReadTables(_, _, _)
ReadTables(tables, i, table_data) ==
    IF i > Len(tables) \/ ~tables[i].csv \/ ~tables[i].caption THEN table_data
    ELSE IF tables[i].loads
         THEN ReadTables(tables, i + 1, Append(table_data, [filename |-> i, row_count |-> tables[i].rows]))
         ELSE ReadTables(tables, i + 1, table_data)

RECURSIVE TotalRows(_)
TotalRows(table_data) ==
    IF table_data = <<>> THEN 0 ELSE Head(table_data).row_count + TotalRows(Tail(table_data))

\* a budget without its hard cap
PlanTableTokensNoCap(total_rows) == 512 * 2 + total_rows * 325

\* max_tokens of _count_table_and_plan_tokens_node
PlanTableTokens(total_rows) ==
    IF total_rows = 0 THEN 512 * 2
    ELSE IF 512 * 2 + total_rows * 325 < 2 * 5120 THEN 512 * 2 + total_rows * 325
    ELSE 2 * 5120

\* list(dict.fromkeys(names)): order kept, later duplicates dropped
RECURSIVE FromKeys(_, _, _)
FromKeys(names, i, result) ==
    IF i > Len(names) THEN result
    ELSE IF names[i] \in {result[j] : j \in 1..Len(result)}
         THEN FromKeys(names, i + 1, result)
         ELSE FromKeys(names, i + 1, Append(result, names[i]))

\* [m.get("name") for m in materials if m.get("name")]
ThermoNames(materials) ==
    LET named == SelectSeq(materials, LAMBDA m : m.name # "")
    IN  [i \in 1..Len(named) |-> named[i].name]

(***************************************************************************)
(* What llm.invoke may do in each stage of a run of the pipeline.          *)
(***************************************************************************)
NamesPayload(items) == [shape |-> "dict", mats |-> "list", items |-> items]
NoNamesPayload == [shape |-> "dict", mats |-> "missing", items |-> <<>>]
ArrayPayload == [shape |-> "array", mats |-> "missing", items |-> <<>>]

\* more distinct names than the discovery prompt asks for
ManyNames == [i \in 1..(MAX_MATERIALS + 1) |-> NameItem(ToString(i), FALSE)]

CandidateResponses ==
    {Raises(ArrayPayload), Returns(Json(NamesPayload(ManyNames))), Returns(Garbage(ArrayPayload)), Returns(Json(ArrayPayload)),
     Returns(Json(NoNamesPayload)),
     Returns(Json(NamesPayload(<<>>))),
     Returns(Json(NamesPayload(<<NameItem("", TRUE), NumberItem>>))),
     Returns(Json(NamesPayload(<<NameItem("A", FALSE)>>))),
     Returns(Json(NamesPayload(<<NameItem("B", TRUE), NumberItem, NameItem("B", FALSE),
                                 NameItem("", FALSE), NameItem("A", FALSE)>>)))}

ThermoResponses ==
    {Raises(NoneBundle), Returns(Garbage(NoneBundle)),
     Returns(Json(ArrayBundle(<<ThermoMaterial(<<PlainEntry(1, 300)>>, <<>>)>>))),
     Returns(Json(NoMaterialsBundle)),
     Returns(Json(Bundle(<<>>))),
     Returns(Json(StrMaterialsBundle)),
     Returns(Json(Bundle(<<BareMaterial>>))),
     Returns(Json(Bundle(<<ThermoMaterial(<<PlainEntry(1, 300), PlainEntry(2, 700)>>,
                                          <<FamEntry(S, 1, 300)>>)>>))),
     Returns(Json(Bundle(<<ThermoMaterial(<<PlainEntry(1, 300)>>, <<>>),
                           Material("C", <<Prop(zt_values, ListVal(<<PlainEntry(1, 300)>>))>>),
                           Material("", <<Prop(zt_values, ListVal(<<>>))>>)>>)))}

StructureResponses ==
    {Raises(NoneBundle), Returns(Garbage(NoneBundle)),
     Returns(Json(ArrayBundle(<<StructureMaterial("A")>>))),
     Returns(Json(NoMaterialsBundle)),
     Returns(Json(Bundle(<<>>))),
     Returns(Json(StrMaterialsBundle)),
     Returns(Json(Bundle(<<StructureMaterial("A")>>)))}

TableResponses ==
    {Raises(NoneBundle), Returns(Garbage(NoneBundle)),
     Returns(Json(ArrayBundle(<<TableMaterial("A")>>))),
     Returns(Json(NoMaterialsBundle)),
     Returns(Json(Bundle(<<>>))),
     Returns(Json(StrMaterialsBundle)),
     Returns(Json(Bundle(<<TableMaterial("A")>>))),
     Returns(Json(Bundle(<<TableMaterial("B")>>)))}

PipelineVerdicts ==
    {Verdict(NoFlags, NoFlags, NoFlags, {}, ""),
     Verdict(FlagMap([n \in {"A"} |-> Flags(<<Fam(ZT, <<2>>)>>)]),
             FlagMap([n \in {"A"} |-> Flags(<<Fam(ZT, <<1>>)>>)]),
             NoFlags, {"A"}, "checked"),
     Verdict(NoFlags, NoFlags,
             FlagMap([n \in {"A"} |-> Flags(<<Fam(ZT, <<Mismatch(2, 300, 700)>>)>>)]),
             {}, "checked"),
     Verdict(NoFlags, NoFlags,
             FlagMap([n \in {"B"} |-> Flags(<<Fam(ZT, <<Mismatch(None, 300, 700)>>)>>)]),
             {}, "checked"),
     Verdict(NoFlags, BadFlagMap, NoFlags, {}, ""),
     Verdict(NoFlags,
             FlagMap([n \in {"A", "C"} |->
                        IF n = "A" THEN Flags(<<Fam(ZT, <<1>>)>>) ELSE BadFlags]),
             NoFlags, {}, ""),
     Verdict(NoFlags, FlagMap([n \in {"A"} |-> Flags(<<Fam(ZT, <<1>>)>>)]),
             FlagMap([n \in {"A"} |-> Flags(<<Fam(ZT, <<BareMismatch(2)>>)>>)]), {}, "")}

PipelineJudgeResponses ==
    {Raises(ArrayVerdict), Returns(Garbage(ArrayVerdict)), Returns(Json(ArrayVerdict))}
    \cup {Returns(Json(v)) : v \in PipelineVerdicts}

(***************************************************************************)
(* The graph of build_app: one action per node, each followed by the       *)
(* routing of its outgoing edge.  pc = "error": an exception left          *)
(* app.invoke; pc = "END": the graph reached END.                          *)
(***************************************************************************)
\* the variable parts of the prompt llm.invoke was called with
Invocation(stage, fulltext, hint) == [stage |-> stage, fulltext |-> fulltext, hint |-> hint]

Invoked(inv, stage, fulltext, hint) ==
    IF inv THEN Append(invoked, Invocation(stage, fulltext, hint)) ELSE invoked

\* how a call of a method of the extractor ended: the material hint it was
\* called with, outcome "return" with the list of names or the bundle returned,
\* or outcome "raise", and the exception raised inside the method
Returned(stage, hint, outcome, error, names, bundle) ==
    [stage |-> stage, hint |-> hint, outcome |-> outcome, error |-> error,
     names |-> names, bundle |-> bundle]

\* os.path.basename(folder)
Basename(folder) == folder

\* the entry _judge_node writes to judge_error_log.txt for the exception `error`
NodeErrorEntry(folder, error) ==
    [by |-> "_judge_node", folder |-> Basename(folder), error |-> error,
     has_raw |-> FALSE, raw |-> Garbage(ArrayVerdict)]

_skip_if_zero_tokens(st) == IF st.skip THEN "END" ELSE "Find_materials"
\* a routing that goes on whatever the skip flag says
NeverSkips(st) == "Thermoelectric_prop"

_skip_if_no_materials(st) == IF st.skip THEN "END" ELSE "Thermoelectric_prop"
_table_branch(st) == IF st.table_data # <<>> THEN "has_tables" ELSE "no_tables"
\* a wiring that sends both branches to table extraction
TableEdgeBothExtract(branch) == "Extract_table_JSON"

TableEdge(branch) == IF branch = "has_tables" THEN "Extract_table_JSON" ELSE "Judge_verification"

\* extract_properties(paper_folder): a run starts on a fresh paper folder
extract_properties ==
    /\ pc \in {"idle", "END", "error"}
    /\ \E p \in Papers :
        /\ paper' = p
        /\ state' = _generate_empty_state(p.folder)
    /\ pc' = "read_file"
    /\ trace' = <<>>
    /\ invoked' = <<>>
    /\ files' = NoFiles
    /\ error_log' = <<>>
    /\ audit_log' = <<>>
    /\ returned' = <<>>
    /\ UNCHANGED <<saved, call>>

\* reset(), called between two runs
reset ==
    /\ pc \in {"idle", "END", "error"}
    /\ saved' = NoSavedOutputs
    /\ UNCHANGED <<pc, state, paper, trace, invoked, files, error_log, audit_log, returned, call>>

_read_fulltext_node ==
    /\ pc = "read_file"
    /\ state' = [state EXCEPT !.fulltext = paper.fulltext, !.retries = 0]
    /\ pc' = "set_tokens"
    /\ trace' = Append(trace, "read_file")
    /\ UNCHANGED <<saved, paper, invoked, files, error_log, audit_log, returned, call>>

\* the State _set_tokens_node returns
SetTokens(st) ==
    LET token_count == DEFAULT_TOKEN_COUNT
    IN  IF token_count = 0 THEN [st EXCEPT !.skip = TRUE]
        ELSE [st EXCEPT !.llm = _token_estimation(token_count), !.skip = FALSE]

_set_tokens_node ==
    /\ pc = "set_tokens"
    /\ state' = SetTokens(state)
    /\ pc' = _skip_if_zero_tokens(state')
    /\ trace' = Append(trace, "set_tokens")
    /\ UNCHANGED <<saved, paper, invoked, files, error_log, audit_log, returned, call>>

\* the node once extract_material_candidates has ended as r
FindMaterials(r) ==
    /\ saved' = [saved EXCEPT !.materials_extraction_llm_output = r.saved]
    /\ invoked' = Invoked(r.invoked, "materials", state.fulltext, <<>>)
    /\ returned' = Append(returned, Returned("materials", <<>>, r.outcome, r.error, r.ret, NoneBundle))
    /\ IF r.outcome = "raise"
       THEN /\ pc' = "error"
            /\ state' = state
       ELSE /\ state' = [state EXCEPT !.material_names = r.ret, !.skip = (r.ret = <<>>)]
            /\ pc' = _skip_if_no_materials(state')

_find_materials_node ==
    /\ pc = "Find_materials"
    /\ \E llm \in CandidateResponses :
        FindMaterials(extract_material_candidates(
                          llm, saved.materials_extraction_llm_output, MAX_MATERIALS))
    /\ trace' = Append(trace, "Find_materials")
    /\ UNCHANGED <<paper, files, error_log, audit_log, call>>

\* `not thermo.get("materials") or not isinstance(thermo["materials"], list)`,
\* or thermo is no mapping and .get raises
\* the check without its isinstance test
ThermoInvalidNoListTest(thermo) == thermo.shape # "dict" \/ ~HasMaterials(thermo)

ThermoInvalid(thermo) ==
    thermo.shape # "dict" \/ ~HasMaterials(thermo) \/ ~MaterialsIsList(thermo)

\* the node once extract_thermo_properties has ended as r
ExtractThermo(r) ==
    /\ saved' = [saved EXCEPT !.thermo_properties_extraction_llm_output = r.saved]
    /\ invoked' = Invoked(r.invoked, "thermo", state.fulltext, state.material_names)
    /\ returned' = Append(returned, Returned("thermo", state.material_names, r.outcome, r.error,
                                           <<>>, r.ret))
    /\ IF r.outcome = "raise" \/ ThermoInvalid(r.ret)
       THEN /\ pc' = "error"
            /\ state' = state
       ELSE /\ state' = [state EXCEPT !.thermo = r.ret]
            /\ pc' = "Structural_prop"

_extract_thermo_node ==
    /\ pc = "Thermoelectric_prop"
    /\ \E llm \in ThermoResponses :
        ExtractThermo(extract_thermo_properties(
                          llm, saved.thermo_properties_extraction_llm_output))
    /\ trace' = Append(trace, "Thermoelectric_prop")
    /\ UNCHANGED <<paper, files, error_log, audit_log, call>>

\* a hint that keeps the duplicates
MergedHintNoDedup(st) == st.material_names \o ThermoNames(st.thermo.items)

\* the hint of _extract_structure_node: candidates, then the thermo names
MergedHint(st) == FromKeys(st.material_names \o ThermoNames(st.thermo.items), 1, <<>>)

\* m.get("name") is called on an item of thermo["materials"] that is no mapping
ThermoNamesRaises(st) == \E i \in 1..Len(st.thermo.items) : ~st.thermo.items[i].dict

\* `not struct.get("materials")`, or struct is no mapping and .get raises
StructureInvalid(struct) == struct.shape # "dict" \/ ~HasMaterials(struct)

\* the node once extract_structural_properties, called with the hint `merged`,
\* has ended as r
ExtractStructure(merged, r) ==
    /\ saved' = [saved EXCEPT !.structure_properties_extraction_llm_output = r.saved]
    /\ invoked' = Invoked(r.invoked, "structure", state.fulltext, merged)
    /\ returned' = Append(returned, Returned("structure", merged, r.outcome, r.error, <<>>, r.ret))
    /\ IF r.outcome = "raise" \/ StructureInvalid(r.ret)
       THEN /\ pc' = "error"
            /\ state' = state
       ELSE /\ state' = [state EXCEPT !.structure = r.ret, !.material_names = merged]
            /\ pc' = "Plan_table_tokens"

_extract_structure_node ==
    /\ pc = "Structural_prop"
    /\ IF ThermoNamesRaises(state)
       THEN /\ pc' = "error"
            /\ UNCHANGED <<state, saved, invoked, returned>>
       ELSE \E llm \in StructureResponses :
            ExtractStructure(MergedHint(state),
                             extract_structural_properties(
                                 llm, saved.structure_properties_extraction_llm_output))
    /\ trace' = Append(trace, "Structural_prop")
    /\ UNCHANGED <<paper, files, error_log, audit_log, call>>

\* the State _count_table_and_plan_tokens_node returns
PlanTables(st, table_data, total_rows) ==
    [st EXCEPT !.table_data = table_data,
               !.total_table_rows = total_rows,
               !.llm = PlanTableTokens(total_rows)]

\* the node once the while loop has collected table_data
CountTables(st, table_data) == PlanTables(st, table_data, TotalRows(table_data))

_count_table_and_plan_tokens_node ==
    /\ pc = "Plan_table_tokens"
    /\ state' = CountTables(state, ReadTables(paper.tables, 1, <<>>))
    /\ pc' = TableEdge(_table_branch(state'))
    /\ trace' = Append(trace, "Plan_table_tokens")
    /\ UNCHANGED <<saved, paper, invoked, files, error_log, audit_log, returned, call>>

\* the node once extract_from_tables has ended as r
ExtractTables(r) ==
    /\ saved' = [saved EXCEPT !.table_data_extraction_llm_output = r.saved]
    /\ invoked' = Invoked(r.invoked, "table", NoText, state.material_names)
    /\ returned' = IF state.table_data = <<>> THEN returned
                    ELSE Append(returned, Returned("table", state.material_names, r.outcome,
                                                   r.error, <<>>, r.ret))
    /\ state' = [state EXCEPT !.table_json_output =
                    IF state.table_data = <<>> THEN Bundle(<<>>) ELSE r.ret]

_extract_table_json_node ==
    /\ pc = "Extract_table_JSON"
    /\ \E llm \in TableResponses :
        ExtractTables(extract_from_tables(state.table_data, llm,
                                          saved.table_data_extraction_llm_output))
    /\ pc' = "Judge_verification"
    /\ trace' = Append(trace, "Extract_table_JSON")
    /\ UNCHANGED <<paper, files, error_log, audit_log, call>>

\* the node without its try/except: an exception of the call leaves the node
JudgeUncaught(r) ==
    /\ saved' = [saved EXCEPT !.judge_llm_output = r.saved]
    /\ invoked' = Invoked(r.invoked, "judge", state.fulltext, <<>>)
    /\ audit_log' = audit_log \o r.audit_log
    /\ error_log' = error_log \o r.error_log
    /\ state' = [state EXCEPT !.thermo = IF r.outcome = "return" THEN r.ret ELSE r.thermo,
                              !.structure = r.structure,
                              !.table_json_output = r.table]
    /\ returned' = Append(returned, Returned("judge", <<>>, r.outcome, r.error, <<>>, r.ret))
    /\ pc' = IF r.outcome = "return" THEN "Write_json" ELSE "error"

\* the node once judge_verify_properties has ended as r: `return {**state,
\* "thermo": judged}`, or the except branch: log, then `return state`, whose
\* bundles are the objects the call worked on
Judge(r) ==
    /\ saved' = [saved EXCEPT !.judge_llm_output = r.saved]
    /\ invoked' = Invoked(r.invoked, "judge", state.fulltext, <<>>)
    /\ audit_log' = audit_log \o r.audit_log
    /\ IF r.outcome = "return"
       THEN /\ state' = [state EXCEPT !.thermo = r.ret,
                                      !.structure = r.structure,
                                      !.table_json_output = r.table]
            /\ error_log' = error_log \o r.error_log
       ELSE /\ state' = [state EXCEPT !.thermo = r.thermo,
                                      !.structure = r.structure,
                                      !.table_json_output = r.table]
            /\ error_log' = Append(error_log, NodeErrorEntry(state.folder, r.error))
    /\ returned' = Append(returned, Returned("judge", <<>>, r.outcome, r.error, <<>>, r.ret))
    /\ pc' = "Write_json"

_judge_node ==
    /\ pc = "Judge_verification"
    /\ \E llm \in PipelineJudgeResponses :
        Judge(judge_verify_properties(state.thermo, state.structure,
                                      state.table_json_output, llm,
                                      Basename(state.folder), saved.judge_llm_output))
    /\ trace' = Append(trace, "Judge_verification")
    /\ UNCHANGED <<paper, files, call>>

\* `state.get("table_json_output") and state["table_json_output"].get("materials")`
\* calls .get on a non-empty bare array
WriteRaises(st) == MergeRaises(st.table_json_output)

WritesTables(st) == st.table_json_output.shape = "dict" /\ HasMaterials(st.table_json_output)

_write_node ==
    /\ pc = "Write_json"
    /\ files' = [t_json |-> Written(state.thermo),
                 s_json |-> Written(state.structure),
                 tables_output_json |->
                     IF ~WriteRaises(state) /\ WritesTables(state)
                     THEN Written(state.table_json_output) ELSE Absent]
    /\ pc' = IF WriteRaises(state) THEN "error" ELSE "END"
    /\ trace' = Append(trace, "Write_json")
    /\ UNCHANGED <<saved, state, paper, invoked, error_log, audit_log, returned, call>>

Init ==
    /\ saved = NoSavedOutputs
    /\ pc = "idle"
    /\ state = _generate_empty_state("")
    /\ paper = NoPaper
    /\ trace = <<>>
    /\ invoked = <<>>
    /\ files = NoFiles
    /\ error_log = <<>>
    /\ audit_log = <<>>
    /\ returned = <<>>
    /\ call = NoCall

Next ==
    \/ extract_properties
    \/ reset
    \/ _read_fulltext_node
    \/ _set_tokens_node
    \/ _find_materials_node
    \/ _extract_thermo_node
    \/ _extract_structure_node
    \/ _count_table_and_plan_tokens_node
    \/ _extract_table_json_node
    \/ _judge_node
    \/ _write_node

Spec == Init /\ [][Next]_vars

(***************************************************************************)
(* Direct calls of judge_verify_properties on a fresh extractor.           *)
(***************************************************************************)
InitJudge ==
    /\ saved = NoSavedOutputs
    /\ pc = "idle"
    /\ state = _generate_empty_state("")
    /\ paper = NoPaper
    /\ trace = <<>>
    /\ invoked = <<>>
    /\ files = NoFiles
    /\ error_log = <<>>
    /\ audit_log = <<>>
    /\ returned = <<>>
    /\ \E in \in JudgeInputs, folder_name \in {"", "paper1"} :
        call = [NoCall EXCEPT !.op = "judge_verify_properties",
                              !.thermo_json = in[1], !.structure_json = in[2],
                              !.table_json = in[3], !.folder_name = folder_name]

\* the call has ended as r: what it leaves in the extractor and in the logs
Called(llm, r) ==
    /\ call' = [call EXCEPT !.done = TRUE, !.llm = llm, !.res = r]
    /\ saved' = [saved EXCEPT !.judge_llm_output = r.saved]
    /\ error_log' = error_log \o r.error_log
    /\ audit_log' = audit_log \o r.audit_log

CallJudge ==
    /\ call.op = "judge_verify_properties"
    /\ ~call.done
    /\ \E llm \in JudgeResponses :
        Called(llm, judge_verify_properties(call.thermo_json, call.structure_json,
                                            call.table_json, llm, call.folder_name,
                                            saved.judge_llm_output))
    /\ UNCHANGED <<pc, state, paper, trace, invoked, files, returned>>

NextJudge == CallJudge

SpecJudge == InitJudge /\ [][NextJudge]_vars

(***************************************************************************)
(* helpers.robust_json_parse on texts.  A text is a sequence of characters, *)
(* each a one-character string; "lsquo", "rsquo", "ldquo", "rdquo" and     *)
(* "tick" stand for U+2018, U+2019, U+201C, U+201D and the backtick.  A    *)
(* decoded value is a record of one shape: k is its kind, s the text of a  *)
(* string, of a number or of the key of a pair, items the items of a list  *)
(* or the pairs of a dict, or the value of a pair.                         *)
(***************************************************************************)
JStr(chars) == [k |-> "str", s |-> chars, items |-> <<>>]
JNum(digits) == [k |-> "num", s |-> digits, items |-> <<>>]
JNull == [k |-> "null", s |-> <<>>, items |-> <<>>]
JBool(b) == [k |-> IF b THEN "true" ELSE "false", s |-> <<>>, items |-> <<>>]
JList(items) == [k |-> "list", s |-> <<>>, items |-> items]
JPair(key, val) == [k |-> "pair", s |-> key, items |-> <<val>>]
JDict(pairs) == [k |-> "dict", s |-> <<>>, items |-> pairs]

\* d[key] = val: the value of an existing key is replaced where it is, a new
\* key is added at the end
RECURSIVE SetKey(_, _, _)
SetKey(pairs, key, val) ==
    IF pairs = <<>> THEN <<JPair(key, val)>>
    ELSE IF Head(pairs).s = key THEN <<JPair(key, val)>> \o Tail(pairs)
    ELSE <<Head(pairs)>> \o SetKey(Tail(pairs), key, val)

Quote == "\""
Apostrophe == "'"

\* the characters \s matches and str.strip removes
Whitespace == {" ", "\n"}
DigitChars == {"1", "2", "3"}
LetterChars == {"a", "b", "c", "e", "l", "n", "o", "r", "s", "t", "u", "N", "T"}

\* normalize_quotes(s)
normalize_quotes(s) ==
    [i \in 1..Len(s) |->
        IF s[i] \in {"lsquo", "rsquo"} THEN Apostrophe
        ELSE IF s[i] \in {"ldquo", "rdquo"} THEN Quote ELSE s[i]]

RECURSIVE lstrip(_)
lstrip(s) == IF s # <<>> /\ Head(s) \in Whitespace THEN lstrip(Tail(s)) ELSE s

RECURSIVE rstrip(_)
rstrip(s) ==
    IF s # <<>> /\ s[Len(s)] \in Whitespace THEN rstrip(SubSeq(s, 1, Len(s) - 1)) ELSE s

\* s.strip()
strip(s) == rstrip(lstrip(s))

\* s.removeprefix(prefix), s.removesuffix(suffix)
removeprefix(s, prefix) ==
    IF Len(s) >= Len(prefix) /\ SubSeq(s, 1, Len(prefix)) = prefix
    THEN SubSeq(s, Len(prefix) + 1, Len(s)) ELSE s

removesuffix(s, suffix) ==
    IF Len(s) >= Len(suffix) /\ SubSeq(s, Len(s) - Len(suffix) + 1, Len(s)) = suffix
    THEN SubSeq(s, 1, Len(s) - Len(suffix)) ELSE s

\* the markers of a markdown code fence; "tick" stands for the backtick
FenceOpen == <<"tick", "tick", "tick", "j", "s", "o", "n">>
FenceClose == <<"tick", "tick", "tick">>

\* text.strip(), removeprefix of the opening fence, removesuffix of the closing
\* fence, strip()
StripMarkdown(text) == strip(removesuffix(removeprefix(strip(text), FenceOpen), FenceClose))

\* the character that closes the span opened by c
Closer(c) == IF c = "{" THEN "}" ELSE "]"

\* the places where the pattern matches: an opening brace or bracket with its
\* closing character somewhere after it
SpanStarts(text) ==
    {i \in 1..Len(text) :
        /\ text[i] \in {"{", "["}
        /\ \E j \in (i + 1)..Len(text) : text[j] = Closer(text[i])}

\* the greedy match that starts at i: up to the last closing character
SpanFrom(text, i) ==
    SubSeq(text, i, CHOOSE j \in (i + 1)..Len(text) :
                        /\ text[j] = Closer(text[i])
                        /\ \A n \in (j + 1)..Len(text) : text[n] # Closer(text[i]))

\* re.search of an object or array span in text, re.DOTALL: the leftmost match,
\* if any, replaces the text
ExtractSpan(text) ==
    IF SpanStarts(text) = {} THEN text
    ELSE SpanFrom(text, CHOOSE i \in SpanStarts(text) : \A j \in SpanStarts(text) : i <= j)

RECURSIVE SkipWs(_, _)
SkipWs(t, i) == IF i <= Len(t) /\ t[i] \in Whitespace THEN SkipWs(t, i + 1) ELSE i

\* re.sub of a comma, whitespace and a closing character by the closing
\* character, from position i on
RECURSIVE CleanTrailingCommas(_, _)
CleanTrailingCommas(text, i) ==
    IF i > Len(text) THEN <<>>
    ELSE IF /\ text[i] = ","
            /\ SkipWs(text, i + 1) <= Len(text)
            /\ text[SkipWs(text, i + 1)] \in {"]", "}"}
    THEN <<text[SkipWs(text, i + 1)]>> \o CleanTrailingCommas(text, SkipWs(text, i + 1) + 1)
    ELSE <<text[i]>> \o CleanTrailingCommas(text, i + 1)

\* text.replace(old, new)
RECURSIVE replace(_, _, _)
replace(text, old, new) ==
    IF Len(text) < Len(old) THEN text
    ELSE IF SubSeq(text, 1, Len(old)) = old
    THEN new \o replace(SubSeq(text, Len(old) + 1, Len(text)), old, new)
    ELSE <<Head(text)>> \o replace(Tail(text), old, new)

\* the text the decoders are tried on: lines 39-54 of robust_json_parse
Rewritten(text) ==
    replace(replace(CleanTrailingCommas(ExtractSpan(StripMarkdown(normalize_quotes(text))), 1),
                    <<"N", "o", "n", "e">>, <<"n", "u", "l", "l">>),
            <<Apostrophe>>, <<Quote>>)

\* what a decoder found at a position: the value and the position after it
NoValue == [ok |-> FALSE, val |-> JNull, pos |-> 0]
Found(val, pos) == [ok |-> TRUE, val |-> val, pos |-> pos]

\* the decoders: json.loads, json5.loads, ast.literal_eval
StringQuotes(d) == IF d = "json" THEN {Quote} ELSE {Quote, Apostrophe}

\* the words of a decoder and their values
Word(text, val) == [text |-> text, val |-> val]
Words(d) ==
    IF d = "literal_eval"
    THEN {Word(<<"N", "o", "n", "e">>, JNull), Word(<<"T", "r", "u", "e">>, JBool(TRUE))}
    ELSE {Word(<<"n", "u", "l", "l">>, JNull), Word(<<"t", "r", "u", "e">>, JBool(TRUE))}

\* a string literal that opens at i: up to the next quote of the same kind
ParseString(t, i) ==
    IF \E j \in (i + 1)..Len(t) : t[j] = t[i]
    THEN LET j == CHOOSE j \in (i + 1)..Len(t) :
                      t[j] = t[i] /\ \A n \in (i + 1)..(j - 1) : t[n] # t[i]
         IN  IF \E n \in (i + 1)..(j - 1) : t[n] = "\n" THEN NoValue
             ELSE Found(JStr(SubSeq(t, i + 1, j - 1)), j + 1)
    ELSE NoValue

RECURSIVE RunEnd(_, _, _)
RunEnd(t, i, chars) == IF i <= Len(t) /\ t[i] \in chars THEN RunEnd(t, i + 1, chars) ELSE i

ParseNumber(t, i) == Found(JNum(SubSeq(t, i, RunEnd(t, i, DigitChars) - 1)), RunEnd(t, i, DigitChars))

ParseWord(d, t, i) ==
    LET ws == {w \in Words(d) :
                  /\ i + Len(w.text) - 1 <= Len(t)
                  /\ SubSeq(t, i, i + Len(w.text) - 1) = w.text}
    IN  IF ws = {} THEN NoValue
        ELSE Found((CHOOSE w \in ws : TRUE).val, i + Len((CHOOSE w \in ws : TRUE).text))

\* the key of a pair: a string, or for JSON5 an identifier
ParseKey(d, t, i) ==
    IF i > Len(t) THEN NoValue
    ELSE IF t[i] \in StringQuotes(d) THEN ParseString(t, i)
    ELSE IF d = "json5" /\ t[i] \in LetterChars
    THEN Found(JStr(SubSeq(t, i, RunEnd(t, i, LetterChars) - 1)), RunEnd(t, i, LetterChars))
    ELSE NoValue

\* a value at i; ListRest and DictRest go on after "[" and "{": need says
\* what came last, the opening ("first"), a comma ("comma") or a value ("value")
RECURSIVE ParseValue(_, _, _)
RECURSIVE ListRest(_, _, _, _, _)
RECURSIVE ListAfterValue(_, _, _, _)
RECURSIVE DictRest(_, _, _, _, _)
RECURSIVE DictAfterKey(_, _, _, _)
RECURSIVE DictAfterValue(_, _, _, _, _)

ParseValue(d, t, i) ==
    IF i > Len(t) THEN NoValue
    ELSE IF t[i] = "[" THEN ListRest(d, t, SkipWs(t, i + 1), <<>>, "first")
    ELSE IF t[i] = "{" THEN DictRest(d, t, SkipWs(t, i + 1), <<>>, "first")
    ELSE IF t[i] \in StringQuotes(d) THEN ParseString(t, i)
    ELSE IF t[i] \in DigitChars THEN ParseNumber(t, i)
    ELSE ParseWord(d, t, i)

ListRest(d, t, p, acc, need) ==
    IF p > Len(t) THEN NoValue
    ELSE IF t[p] = "]"
    THEN IF need = "comma" /\ d = "json" THEN NoValue ELSE Found(JList(acc), p + 1)
    ELSE IF t[p] = ","
    THEN IF need = "value" THEN ListRest(d, t, SkipWs(t, p + 1), acc, "comma") ELSE NoValue
    ELSE IF need = "value" THEN NoValue
    ELSE ListAfterValue(d, t, acc, ParseValue(d, t, p))

ListAfterValue(d, t, acc, r) ==
    IF r.ok THEN ListRest(d, t, SkipWs(t, r.pos), Append(acc, r.val), "value") ELSE NoValue

DictRest(d, t, p, acc, need) ==
    IF p > Len(t) THEN NoValue
    ELSE IF t[p] = "}"
    THEN IF need = "comma" /\ d = "json" THEN NoValue ELSE Found(JDict(acc), p + 1)
    ELSE IF t[p] = ","
    THEN IF need = "value" THEN DictRest(d, t, SkipWs(t, p + 1), acc, "comma") ELSE NoValue
    ELSE IF need = "value" THEN NoValue
    ELSE DictAfterKey(d, t, acc, ParseKey(d, t, p))

DictAfterKey(d, t, acc, key) ==
    IF ~key.ok \/ SkipWs(t, key.pos) > Len(t) THEN NoValue
    ELSE IF t[SkipWs(t, key.pos)] # ":" THEN NoValue
    ELSE DictAfterValue(d, t, acc, key.val.s,
                        ParseValue(d, t, SkipWs(t, SkipWs(t, key.pos) + 1)))

DictAfterValue(d, t, acc, key, r) ==
    IF r.ok THEN DictRest(d, t, SkipWs(t, r.pos), SetKey(acc, key, r.val), "value")
    ELSE NoValue

\* the outcome of a decoder: the value, or ok = FALSE when it raises
Decoded(ok, val) == [ok |-> ok, val |-> val]

\* the whole text must be one value, whitespace around it apart
WholeText(t, r) ==
    IF r.ok /\ SkipWs(t, r.pos) > Len(t) THEN Decoded(TRUE, r.val) ELSE Decoded(FALSE, JNull)

Decode(d, t) == WholeText(t, ParseValue(d, t, SkipWs(t, 1)))

json_loads(t) == Decode("json", t)
json5_loads(t) == Decode("json5", t)
literal_eval(t) == Decode("literal_eval", t)

\* how robust_json_parse ends: the value returned and the decoder that gave
\* it, or error = "JSONParsingError" when it raises
Parsed(by, val) == [ok |-> TRUE, by |-> by, error |-> "", val |-> val]
ParseRaised == [ok |-> FALSE, by |-> "none", error |-> "JSONParsingError", val |-> JNull]

\* a parser that returns the empty bundle when every decoder has failed
CascadeEmptyBundle(strict, relaxed, literal) ==
    IF strict.ok THEN Parsed("json.loads", strict.val)
    ELSE IF relaxed.ok THEN Parsed("json5.loads", relaxed.val)
    ELSE IF literal.ok THEN Parsed("ast.literal_eval", literal.val)
    ELSE Parsed("none", JDict(<<JPair(<<"m", "a", "t", "e", "r", "i", "a", "l", "s">>, JList(<<>>))>>))

\* the three try blocks of robust_json_parse, given what each decoder does
Cascade(strict, relaxed, literal) ==
    IF strict.ok THEN Parsed("json.loads", strict.val)
    ELSE IF relaxed.ok THEN Parsed("json5.loads", relaxed.val)
    ELSE IF literal.ok THEN Parsed("ast.literal_eval", literal.val)
    ELSE ParseRaised

TryDecoders(t) == Cascade(json_loads(t), json5_loads(t), literal_eval(t))

\* robust_json_parse(text) of helpers.py, text a str
helpers_robust_json_parse(text) == TryDecoders(Rewritten(text))

(***************************************************************************)
(* Texts handed to robust_json_parse in a direct call.                     *)
(***************************************************************************)
\* a double-quoted string literal
Lit(chars) == <<Quote>> \o chars \o <<Quote>>
\* a single-quoted string literal
SingleLit(chars) == <<Apostrophe>> \o chars \o <<Apostrophe>>
Brackets(body) == <<"[">> \o body \o <<"]">>
Braces(body) == <<"{">> \o body \o <<"}">>
Colon == <<":", " ">>
Comma == <<",", " ">>
NoneWord == <<"N", "o", "n", "e">>
NullWord == <<"n", "u", "l", "l">>

\* documents of strict JSON
StrictDocs ==
    {Brackets(Lit(<<"a">>)),
     Brackets(Lit(<<"t", Apostrophe, "s">>)),
     Brackets(Lit(NoneWord)),
     Brackets(Lit(<<",", "]">>)),
     Brackets(Lit(<<"a", "rsquo", "s">>)),
     Brackets(<<"1">> \o Comma \o <<"2">>),
     Brackets(<<" ", "1", " ", ",", "2", " ">>),
     Brackets(<<>>),
     Braces(<<>>),
     Braces(Lit(<<"a">>) \o Colon \o <<"1">>),
     Braces(Lit(<<"a">>) \o Colon \o NullWord),
     Braces(Lit(<<"a">>) \o Colon \o Brackets(Lit(<<"b">>))),
     Braces(Lit(<<"a">>) \o Colon \o <<"1">> \o Comma \o Lit(<<"b">>) \o Colon \o <<"t", "r", "u", "e">>),
     Braces(Lit(<<"a">>) \o Colon \o <<"1">> \o Comma \o Lit(<<"a">>) \o Colon \o <<"2">>),
     Brackets(Braces(Lit(<<"a">>) \o Colon \o <<"1">>) \o Comma \o <<"2">>),
     Lit(<<"a">>),
     Lit(<<"a", "[", "1", "]", "b">>),
     <<"1", "2">>,
     NullWord}

\* documents that strict JSON rejects
LenientDocs ==
    {Braces(SingleLit(<<"a">>) \o Colon \o <<"1">>),
     Brackets(<<"1">> \o Comma \o <<"2", ",">>),
     Braces(Lit(<<"a">>) \o Colon \o <<"1", ",", " ">>),
     Braces(Lit(<<"a">>) \o Colon \o NoneWord),
     Braces(<<"a">> \o Colon \o <<"1">>),
     Brackets(<<"T", "r", "u", "e">>),
     Braces(SingleLit(<<"a">>) \o Colon \o <<"T", "r", "u", "e">>),
     Braces(<<"ldquo", "a", "rdquo">> \o Colon \o <<"1">>),
     Braces(Lit(<<"a">>) \o Colon \o <<"1">>) \o <<" ">> \o Braces(Lit(<<"b">>) \o Colon \o <<"2">>),
     Brackets(<<"1">>) \o <<" ">> \o Braces(Lit(<<"a">>) \o Colon \o <<"1">>),
     <<"[", "1", ",", " ", "2">>,
     Brackets(<<"1", " ", "2">>),
     <<"a", "b", "c">>,
     <<>>}

\* a document as it is, between whitespace, in a markdown fence, after prose
Wrapped(how, doc) ==
    IF how = "bare" THEN doc
    ELSE IF how = "padded" THEN <<" ">> \o doc \o <<"\n">>
    ELSE IF how = "fenced" THEN FenceOpen \o <<"\n">> \o doc \o <<"\n">> \o FenceClose
    ELSE <<"s", "e", "e", ":", " ">> \o doc

ParseTexts ==
    {Wrapped(how, doc) : how \in {"bare", "padded", "fenced", "prose"},
                         doc \in StrictDocs \cup LenientDocs}

\* a direct call of robust_json_parse
InitParse ==
    /\ saved = NoSavedOutputs
    /\ pc = "idle"
    /\ state = _generate_empty_state("")
    /\ paper = NoPaper
    /\ trace = <<>>
    /\ invoked = <<>>
    /\ files = NoFiles
    /\ error_log = <<>>
    /\ audit_log = <<>>
    /\ returned = <<>>
    /\ \E text \in ParseTexts :
        call = [op |-> "robust_json_parse", text |-> text, done |-> FALSE, res |-> ParseRaised]

CallParse ==
    /\ call.op = "robust_json_parse"
    /\ ~call.done
    /\ call' = [call EXCEPT !.done = TRUE, !.res = helpers_robust_json_parse(call.text)]
    /\ UNCHANGED <<saved, pc, state, paper, trace, invoked, files, error_log, audit_log, returned>>

NextParse == CallParse

SpecParse == InitParse /\ [][NextParse]_vars

(***************************************************************************)
(* compile_table.py: the merge of the materials of t.json.  Values are the *)
(* decoded values of json.load, in the encoding of the parser above.       *)
(***************************************************************************)
\* d.get(key): None when the key is absent
Get(pairs, key) ==
    IF \E i \in 1..Len(pairs) : pairs[i].s = key
    THEN pairs[CHOOSE i \in 1..Len(pairs) : pairs[i].s = key].items[1]
    ELSE JNull

\* the order of the characters of the keys, by code point
CodeOrder == <<" ", "1", "2", "3", "A", "B", "a", "b", "c", "d", "e", "m", "n", "s", "t", "x",
               "y", "z">>
Ord(c) == CHOOSE i \in 1..Len(CodeOrder) : CodeOrder[i] = c

\* key a sorts before key b
RECURSIVE KeyLess(_, _)
KeyLess(a, b) ==
    IF b = <<>> THEN FALSE
    ELSE IF a = <<>> THEN TRUE
    ELSE IF Head(a) = Head(b) THEN KeyLess(Tail(a), Tail(b))
    ELSE Ord(Head(a)) < Ord(Head(b))

\* sort_keys=True: the pairs in the order of their keys
RECURSIVE InsertPair(_, _)
InsertPair(sorted, pair) ==
    IF sorted = <<>> THEN <<pair>>
    ELSE IF KeyLess(pair.s, Head(sorted).s) THEN <<pair>> \o sorted
    ELSE <<Head(sorted)>> \o InsertPair(Tail(sorted), pair)

RECURSIVE SortPairs(_)
SortPairs(pairs) ==
    IF pairs = <<>> THEN <<>>
    ELSE InsertPair(SortPairs(SubSeq(pairs, 1, Len(pairs) - 1)), pairs[Len(pairs)])

\* json.dumps(x, sort_keys=sort, ensure_ascii=False): the text of x
RECURSIVE json_dumps(_, _)
RECURSIVE DumpsItems(_, _)
json_dumps(x, sort) ==
    IF x.k = "str" THEN Lit(x.s)
    ELSE IF x.k = "num" THEN x.s
    ELSE IF x.k = "null" THEN NullWord
    ELSE IF x.k = "true" THEN <<"t", "r", "u", "e">>
    ELSE IF x.k = "false" THEN <<"f", "a", "l", "s", "e">>
    ELSE IF x.k = "pair" THEN Lit(x.s) \o Colon \o json_dumps(x.items[1], sort)
    ELSE IF x.k = "list" THEN Brackets(DumpsItems(x.items, sort))
    ELSE Braces(DumpsItems(IF sort THEN SortPairs(x.items) ELSE x.items, sort))

DumpsItems(items, sort) ==
    IF items = <<>> THEN <<>>
    ELSE IF Len(items) = 1 THEN json_dumps(items[1], sort)
    ELSE json_dumps(Head(items), sort) \o Comma \o DumpsItems(Tail(items), sort)

\* str(x) of a scalar
StrOf(x) ==
    IF x.k \in {"str", "num"} THEN x.s
    ELSE IF x.k = "null" THEN NoneWord
    ELSE IF x.k = "true" THEN <<"T", "r", "u", "e">>
    ELSE <<"F", "a", "l", "s", "e">>

\* the hashable key _dedupe_list makes of an item
DedupeKey(x) == IF x.k \in {"dict", "list"} THEN json_dumps(x, TRUE) ELSE StrOf(x)

\* the loop of _dedupe_list
RECURSIVE DedupeLoop(_, _, _, _)
DedupeLoop(items, i, seen, out) ==
    IF i > Len(items) THEN out
    ELSE IF DedupeKey(items[i]) \in seen THEN DedupeLoop(items, i + 1, seen, out)
    ELSE DedupeLoop(items, i + 1, seen \cup {DedupeKey(items[i])}, Append(out, items[i]))

_dedupe_list(items) == DedupeLoop(items, 1, {}, <<>>)

\* type(x)
TypeOf(x) == IF x.k \in {"true", "false"} THEN "bool" ELSE x.k

\* a in ("", [], {})
EmptyIsh(a) == a \in {JStr(<<>>), JList(<<>>), JDict(<<>>)}

\* a merge that returns its first operand whatever it is
merge_valuesKeepFirst(a, b) == a

\* a merge in which the second of two non-null operands wins
merge_valuesLastWins(a, b) == IF a = JNull THEN b ELSE IF b = JNull THEN a ELSE b

\* merge_values(a, b); MergeDictLoop is its loop over b.items()
RECURSIVE merge_values(_, _)
RECURSIVE MergeDictLoop(_, _)
merge_values(a, b) ==
    IF a = JNull THEN b
    ELSE IF b = JNull THEN a
    ELSE IF a.k = "list" /\ b.k = "list" THEN JList(_dedupe_list(a.items \o b.items))
    ELSE IF a.k = "dict" /\ b.k = "dict" THEN JDict(MergeDictLoop(a.items, b.items))
    ELSE IF TypeOf(a) # TypeOf(b) THEN IF EmptyIsh(a) THEN b ELSE a
    ELSE a

MergeDictLoop(out, pairs) ==
    IF pairs = <<>> THEN out
    ELSE MergeDictLoop(SetKey(out, Head(pairs).s,
                              merge_values(Get(out, Head(pairs).s), Head(pairs).items[1])),
                       Tail(pairs))

\* name.split(): the words between runs of whitespace
RECURSIVE split(_, _, _)
split(s, word, words) ==
    IF s = <<>> THEN IF word = <<>> THEN words ELSE Append(words, word)
    ELSE IF Head(s) \in Whitespace
    THEN split(Tail(s), <<>>, IF word = <<>> THEN words ELSE Append(words, word))
    ELSE split(Tail(s), Append(word, Head(s)), words)

\* " ".join(words)
RECURSIVE join(_)
join(words) ==
    IF words = <<>> THEN <<>>
    ELSE IF Len(words) = 1 THEN words[1]
    ELSE Head(words) \o <<" ">> \o join(Tail(words))

\* a normalization that only trims
normalize_nameTrimOnly(name) == IF name.k # "str" THEN <<>> ELSE strip(name.s)

\* a normalization that gives materials without a string name a name of their own
normalize_nameDefault(name) ==
    IF name.k # "str" THEN <<"x">> ELSE join(split(strip(name.s), <<>>, <<>>))

\* normalize_name(name): "" for a non-string
normalize_name(name) == IF name.k # "str" THEN <<>> ELSE join(split(strip(name.s), <<>>, <<>>))

NameKey == <<"n", "a", "m", "e">>

\* the loop `for k, v in mat.items()` that merges mat into acc
RECURSIVE MergeInto(_, _)
MergeInto(acc, pairs) ==
    IF pairs = <<>> THEN acc
    ELSE IF Head(pairs).s = NameKey THEN MergeInto(acc, Tail(pairs))
    ELSE MergeInto(SetKey(acc, Head(pairs).s,
                          merge_values(Get(acc, Head(pairs).s), Head(pairs).items[1])),
                   Tail(pairs))

\* an entry of merged_by_name
Entry(name, acc) == [name |-> name, acc |-> acc]

\* merged_by_name after mat, whose normalized name is name, has been handled
MergeNamed(merged_by_name, name, mat) ==
    IF \A j \in 1..Len(merged_by_name) : merged_by_name[j].name # name
    THEN Append(merged_by_name, Entry(name, mat.items))
    ELSE [j \in 1..Len(merged_by_name) |->
             IF merged_by_name[j].name # name THEN merged_by_name[j]
             ELSE Entry(name, MergeInto(SetKey(merged_by_name[j].acc, NameKey, JStr(name)),
                                        mat.items))]

\* the loop `for mat in materials` and merged_materials
RECURSIVE MergeLoop(_, _, _, _)
MergeLoop(materials, i, merged_by_name, unnamed) ==
    IF i > Len(materials)
    THEN [j \in 1..Len(merged_by_name) |-> JDict(merged_by_name[j].acc)] \o unnamed
    ELSE IF materials[i].k # "dict" THEN MergeLoop(materials, i + 1, merged_by_name, unnamed)
    ELSE IF normalize_name(Get(materials[i].items, NameKey)) = <<>>
    THEN MergeLoop(materials, i + 1, merged_by_name, Append(unnamed, materials[i]))
    ELSE MergeLoop(materials, i + 1,
                   MergeNamed(merged_by_name,
                              normalize_name(Get(materials[i].items, NameKey)), materials[i]),
                   unnamed)

MaterialsKey == <<"m", "a", "t", "e", "r", "i", "a", "l", "s">>

\* data.get("materials", []), [] when it is no list
MaterialsOf(data) ==
    IF Get(data.items, MaterialsKey).k = "list" THEN Get(data.items, MaterialsKey).items
    ELSE <<>>

\* a row of the DataFrame: dict and list values as their json.dumps text
FlattenRow(mat) ==
    JDict([j \in 1..Len(mat.items) |->
              IF mat.items[j].items[1].k \in {"dict", "list"}
              THEN JPair(mat.items[j].s, JStr(json_dumps(mat.items[j].items[1], FALSE)))
              ELSE mat.items[j]])

\* what compile_table computes from the data of t.json: merged_materials and
\* the rows handed to pandas
Compiled(merged_materials) ==
    [merged_materials |-> merged_materials,
     flattened_rows |-> [j \in 1..Len(merged_materials) |-> FlattenRow(merged_materials[j])]]

\* the items of a list, last first
Reversed(items) == [j \in 1..Len(items) |-> items[Len(items) + 1 - j]]

\* a merge that puts the records out last first
compile_tableLastFirst(data) == Compiled(Reversed(MergeLoop(MaterialsOf(data), 1, <<>>, <<>>)))

compile_table(data) == Compiled(MergeLoop(MaterialsOf(data), 1, <<>>, <<>>))

(***************************************************************************)
(* Values handed to merge_values and data handed to compile_table in a     *)
(* direct call.                                                            *)
(***************************************************************************)
Num(n) == JNum(<<ToString(n)>>)
Text(c) == JStr(<<c>>)
OneKey(key, val) == JDict(<<JPair(<<key>>, val)>>)

MergeOperands ==
    {JNull, Num(1), Num(2), Text("1"), JStr(<<>>), Text("v"), Text("w"), JBool(TRUE),
     JList(<<>>), JList(<<Num(1), Num(2)>>), JList(<<Num(2), Num(3)>>), JList(<<Num(1)>>),
     JList(<<Text("1")>>), JList(<<Num(1), Num(1)>>),
     JList(<<OneKey("a", Num(1))>>), JList(<<OneKey("a", Num(1)), OneKey("a", Num(2))>>),
     JList(<<JDict(<<JPair(<<"a">>, Num(1)), JPair(<<"b">>, Num(2))>>)>>),
     JList(<<JDict(<<JPair(<<"b">>, Num(2)), JPair(<<"a">>, Num(1))>>)>>),
     JList(<<JList(<<Num(1)>>)>>), JList(<<JStr(<<"[", "1", "]">>)>>),
     JDict(<<>>), OneKey("x", Num(1)),
     JDict(<<JPair(<<"x">>, JNull), JPair(<<"y">>, JList(<<Num(1)>>))>>),
     JDict(<<JPair(<<"y">>, JList(<<Num(2)>>)), JPair(<<"x">>, Text("v"))>>)}

\* a material of t.json: its name, then its other keys
Named(name, pairs) == JDict(<<JPair(NameKey, name)>> \o pairs)

MergeMaterials ==
    {Named(JStr(<<" ", "A", " ">>),
           <<JPair(<<"x">>, JNull), JPair(<<"z", "t">>, JList(<<Num(1), Num(2)>>))>>),
     Named(Text("A"), <<JPair(<<"x">>, Text("v")), JPair(<<"z", "t">>, JList(<<Num(2), Num(3)>>))>>),
     Named(Text("A"), <<JPair(<<"x">>, Text("w"))>>),
     Named(Text("B"), <<JPair(<<"x">>, Text("v"))>>),
     Named(Num(1), <<JPair(<<"x">>, Text("v"))>>),
     OneKey("x", Text("w")),
     Named(JStr(<<" ", " ">>), <<JPair(<<"x">>, Text("v"))>>),
     Num(1),
     Named(JStr(<<"A", " ", " ", "B">>), <<JPair(<<"d">>, OneKey("a", Num(1)))>>),
     Named(JStr(<<" ", "A", " ", "B">>),
           <<JPair(<<"d">>, JDict(<<JPair(<<"a">>, Num(2)), JPair(<<"b">>, JList(<<Num(1)>>))>>)),
             JPair(<<"x">>, JNull)>>)}

\* the lists of at most MaxGroup materials
MaterialLists ==
    UNION {[1..n -> MergeMaterials] : n \in 0..MaxGroup}

TableData ==
    {JDict(<<JPair(MaterialsKey, JList(materials))>>) : materials \in MaterialLists}
    \cup {JDict(<<>>), JDict(<<JPair(MaterialsKey, Text("v"))>>)}

NoCompiled == Compiled(<<>>)

\* a direct call of merge_values or of compile_table
MergeCall(op, a, b, data) ==
    [op |-> op, a |-> a, b |-> b, data |-> data, done |-> FALSE, res |-> JNull,
     compiled |-> NoCompiled]

InitMerge ==
    /\ saved = NoSavedOutputs
    /\ pc = "idle"
    /\ state = _generate_empty_state("")
    /\ paper = NoPaper
    /\ trace = <<>>
    /\ invoked = <<>>
    /\ files = NoFiles
    /\ error_log = <<>>
    /\ audit_log = <<>>
    /\ returned = <<>>
    /\ \/ \E a \in MergeOperands, b \in MergeOperands :
            call = MergeCall("merge_values", a, b, JDict(<<>>))
       \/ \E data \in TableData : call = MergeCall("compile_table", JNull, JNull, data)

CallMergeValues ==
    /\ call.op = "merge_values"
    /\ ~call.done
    /\ call' = [call EXCEPT !.done = TRUE, !.res = merge_values(call.a, call.b)]
    /\ UNCHANGED <<saved, pc, state, paper, trace, invoked, files, error_log, audit_log, returned>>

CallCompileTable ==
    /\ call.op = "compile_table"
    /\ ~call.done
    /\ call' = [call EXCEPT !.done = TRUE, !.compiled = compile_table(call.data)]
    /\ UNCHANGED <<saved, pc, state, paper, trace, invoked, files, error_log, audit_log, returned>>

NextMerge == CallMergeValues \/ CallCompileTable

SpecMerge == InitMerge /\ [][NextMerge]_vars

(***************************************************************************)
(* Properties of the runs of extract_properties (specification Spec).      *)
(***************************************************************************)
StageOrder ==
    <<"read_file", "set_tokens", "Find_materials", "Thermoelectric_prop", "Structural_prop",
      "Plan_table_tokens", "Extract_table_JSON", "Judge_verification", "Write_json">>

StageOrderNoTables ==
    <<"read_file", "set_tokens", "Find_materials", "Thermoelectric_prop", "Structural_prop",
      "Plan_table_tokens", "Judge_verification", "Write_json">>

IsPrefix(a, b) == Len(a) <= Len(b) /\ a = SubSeq(b, 1, Len(a))

Ran(stage) == \E i \in 1..Len(trace) : trace[i] = stage

LastStage == IF trace = <<>> THEN "none" ELSE trace[Len(trace)]

\* the tables of the paper folder that Plan_table_tokens collects
TablesFound == ReadTables(paper.tables, 1, <<>>)

\* the stages of the run are a prefix of the fixed order, with table extraction
\* in it exactly when Plan_table_tokens collected a table and verification
\* right after Plan_table_tokens otherwise; the stage about to run has not run
\* yet, and nothing runs after Write_json
StagesInOrder ==
    /\ IsPrefix(trace, StageOrder) \/ IsPrefix(trace, StageOrderNoTables)
    /\ Len(trace) >= 7 =>
        /\ TablesFound # <<>> => IsPrefix(trace, StageOrder)
        /\ TablesFound = <<>> => IsPrefix(trace, StageOrderNoTables)
    /\ Ran("Write_json") => LastStage = "Write_json" /\ pc \in {"END", "error"}
    /\ pc \in {"read_file", "set_tokens", "Find_materials", "Thermoelectric_prop",
               "Structural_prop", "Plan_table_tokens", "Extract_table_JSON",
               "Judge_verification", "Write_json"} => ~Ran(pc)

\* C1 (amended): the stages run one after another in the fixed order, each at
\* most once, table extraction exactly when Plan_table_tokens collected a
\* table and verification right after Plan_table_tokens otherwise; a run that
\* is not skipped reaches END only with Write_json as its last stage.
C1_StagesRunInOrder ==
    /\ StagesInOrder
    /\ pc = "END" /\ ~state.skip => LastStage = "Write_json"

\* C1 as stated: the same order, and Write_json is the last stage of every run
\* that reaches END.
C1_WriteJsonAlwaysLast ==
    /\ StagesInOrder
    /\ pc = "END" => LastStage = "Write_json"

\* a run over a folder with tables went through all nine stages to END
C1_Witness == pc = "END" /\ trace = StageOrder /\ TablesFound # <<>>

\* C2: for a paper whose text has zero length only read_file and set_tokens
\* run, the capability is never invoked, the paper is marked skipped once
\* set_tokens has run, and no artifact is written.
C2_ZeroLengthTextIsSkipped ==
    (pc # "idle" /\ paper.fulltext = "") =>
        /\ \A i \in 1..Len(trace) : trace[i] \in {"read_file", "set_tokens"}
        /\ invoked = <<>>
        /\ Ran("set_tokens") => state.skip /\ pc = "END"
        /\ files = NoFiles

\* candidate discovery returned the empty list in this run
NoCandidates ==
    \E i \in 1..Len(returned) :
        /\ returned[i].stage = "materials"
        /\ returned[i].outcome = "return"
        /\ returned[i].names = <<>>

\* C3: when the text is not empty and candidate discovery returns the empty
\* list, skip is set and the run is at END without error after Find_materials:
\* no later stage ran, the capability was invoked at most once (by the
\* discovery) and no artifact is written.
C3_NoCandidatesSkipsRun ==
    (paper.fulltext # "" /\ NoCandidates) =>
        /\ state.skip
        /\ pc = "END"
        /\ trace = <<"read_file", "set_tokens", "Find_materials">>
        /\ \A i \in 1..Len(invoked) : invoked[i].stage = "materials"
        /\ Len(invoked) <= 1
        /\ files = NoFiles

\* the discovery invoked the capability on a non-empty text and got no name
C3_Witness ==
    /\ paper.fulltext # ""
    /\ NoCandidates
    /\ Len(invoked) = 1
    /\ pc = "END"

\* a returned bundle is a mapping whose `materials` is empty or missing
EmptyOrMissing(bundle) ==
    /\ bundle.shape = "dict"
    /\ bundle.mats = "missing" \/ (bundle.mats = "list" /\ bundle.items = <<>>)

\* a returned bundle is a mapping whose `materials` is not a list
NotAList(bundle) == bundle.shape = "dict" /\ bundle.mats \notin {"missing", "list"}

\* C4: when thermo extraction returns a bundle whose `materials` is empty,
\* missing or not a list, the run ends with an error at Thermoelectric_prop,
\* and when structural extraction returns one whose `materials` is empty or
\* missing, it ends with an error at Structural_prop: no later stage runs.
C4_EmptyBundleAborts ==
    \A i \in 1..Len(returned) :
        /\ (/\ returned[i].stage = "thermo"
            /\ returned[i].outcome = "return"
            /\ EmptyOrMissing(returned[i].bundle) \/ NotAList(returned[i].bundle))
           => pc = "error" /\ LastStage = "Thermoelectric_prop"
        /\ (/\ returned[i].stage = "structure"
            /\ returned[i].outcome = "return"
            /\ EmptyOrMissing(returned[i].bundle))
           => pc = "error" /\ LastStage = "Structural_prop"

\* thermo extraction returned a bundle whose `materials` is a string
C4_Witness ==
    /\ pc = "error"
    /\ \E i \in 1..Len(returned) :
        returned[i].stage = "thermo" /\ NotAList(returned[i].bundle)

\* C5: a run that ended with an error has written none of t.json, s.json,
\* tables_output.json.
C5_NoArtifactAfterError == pc = "error" => files = NoFiles

\* C6: the stage that follows Judge_verification in every run is Write_json:
\* whatever happens inside verification, the run goes on to Write_json, which
\* can then run; no run ends with an error at Judge_verification.
C6_VerificationNeverEscapes ==
    /\ \A i \in 1..Len(trace) :
        trace[i] = "Judge_verification" =>
            IF i = Len(trace) THEN pc = "Write_json" ELSE trace[i + 1] = "Write_json"
    /\ pc = "Write_json" => ENABLED _write_node
    /\ pc = "error" => LastStage # "Judge_verification"

\* an exception of the verification call was swallowed and Write_json ran
C6_Witness ==
    /\ Ran("Write_json")
    /\ \E i \in 1..Len(error_log) : error_log[i].by = "_judge_node"

\* what an extraction stage returned in this run (None when it did not run)
ReturnedBundle(stage) ==
    IF \E i \in 1..Len(returned) : returned[i].stage = stage /\ returned[i].outcome = "return"
    THEN (CHOOSE e \in {returned[i] : i \in 1..Len(returned)} :
              e.stage = stage /\ e.outcome = "return").bundle
    ELSE NoneBundle

\* the working list of the run's verification: the materials of the thermo,
\* structure and table bundles as the stages returned them
WorkingList ==
    MergedMaterials(ReturnedBundle("thermo"), ReturnedBundle("structure"),
                    ReturnedBundle("table"))

\* the verification of this run failed after its working list was built
VerificationFailed ==
    /\ Ran("Judge_verification")
    /\ error_log # <<>>
    /\ ~MergeRaises(ReturnedBundle("table"))

\* C7: when verification failed after the empty-working-list check, the thermo
\* output, and t.json once written, is the unfiltered working list: every
\* material of the three bundles with every Measurement it held.
C7_FailureKeepsWorkingList ==
    VerificationFailed =>
        /\ state.thermo.shape = "dict"
        /\ state.thermo.mats = "list"
        /\ state.thermo.items = WorkingList
        /\ files.t_json.exists => files.t_json.data = state.thermo

(***************************************************************************)
(* Properties of direct calls of judge_verify_properties (specification    *)
(* SpecJudge).                                                             *)
(***************************************************************************)
\* the call of judge_verify_properties is over
CallDone == call.op = "judge_verify_properties" /\ call.done

\* the working list the call builds from its three bundles
CallWorkingList == MergedMaterials(call.thermo_json, call.structure_json, call.table_json)

\* the call gets as far as asking the capability
CallAsksCapability ==
    /\ ~MergeRaises(call.thermo_json)
    /\ ~MergeRaises(call.structure_json)
    /\ ~MergeRaises(call.table_json)
    /\ CallWorkingList # <<>>

\* the capability answered with a text that does not parse, or that parses to
\* something that is no mapping
ResponseUnparsable ==
    /\ ~call.llm.raises
    /\ call.llm.content.form # "json" \/ ~call.llm.content.val.dict

\* C8: when the verification response does not parse, or parses to something
\* that is no mapping, the call returns a bundle whose materials are the
\* working list unchanged, the error log gains exactly one entry that holds the
\* folder identifier (folder_name, or the working directory when none was
\* given), the error and the raw response, and the audit log gains nothing.
C8_UnparsableVerdictFallsBack ==
    (CallDone /\ CallAsksCapability /\ ResponseUnparsable) =>
        /\ call.res.outcome = "return"
        /\ call.res.ret.shape = "dict"
        /\ call.res.ret.mats = "list"
        /\ call.res.ret.items = CallWorkingList
        /\ Len(error_log) = 1
        /\ error_log[1].folder = (IF call.folder_name = "" THEN Cwd ELSE call.folder_name)
        /\ error_log[1].error \in {"JSONParsingError", "ValueError"}
        /\ error_log[1].has_raw
        /\ error_log[1].raw = call.llm.content
        /\ audit_log = <<>>

\* a call without folder_name got a response that does not parse
C8_Witness ==
    /\ CallDone
    /\ CallAsksCapability
    /\ call.folder_name = ""
    /\ ~call.llm.raises
    /\ call.llm.content.form = "garbage"
    /\ Len(CallWorkingList) >= 2

\* the verification succeeded: the verdict was applied and the audit log written
CallSucceeded == CallDone /\ call.res.outcome = "return" /\ call.res.audit_log # <<>>

\* the verdict of the call
CallVerdict == call.llm.content.val

\* the verdict's `incorrect` flags for the material called name, the
\* `temp_mismatch` ones
IncorrectFor(name) == FlagsOf(CallVerdict.incorrect, name).fams
MismatchFor(name) == FlagsOf(CallVerdict.temp_mismatch, name).fams

\* the entry v of the list under key has its `value` or `<F>_value` equal to a
\* numeric value flagged for a family F that key contains
FlaggedIncorrect(v, key, fams) ==
    \E k \in 1..Len(fams) :
        /\ Contains(Lower(key), Lower(fams[k].key))
        /\ \E j \in 1..Len(fams[k].bad) :
            /\ fams[k].bad[j] # None
            /\ \/ v.value = fams[k].bad[j]
               \/ v.fam = fams[k].key /\ v.fvalue = fams[k].bad[j]

\* the same for the values of the temp_mismatch entries that carry a value
FlaggedMismatch(v, key, fams) ==
    \E k \in 1..Len(fams) :
        /\ Contains(Lower(key), Lower(fams[k].key))
        /\ \E j \in 1..Len(fams[k].bad) :
            /\ fams[k].bad[j].value # None
            /\ \/ v.value = fams[k].bad[j].value
               \/ v.fam = fams[k].key /\ v.fvalue = fams[k].bad[j].value

\* a is b with some items left out, the others in their order
RECURSIVE IsSubsequence(_, _)
IsSubsequence(a, b) ==
    IF a = <<>> THEN TRUE
    ELSE IF b = <<>> THEN FALSE
    ELSE IF Head(a) = Head(b) THEN IsSubsequence(Tail(a), Tail(b))
    ELSE IsSubsequence(a, Tail(b))

\* the positions <<i, p>> of the list-valued properties of the working list
ListProps ==
    {ip \in (1..Len(CallWorkingList)) \X (1..3) :
        /\ ip[2] <= Len(CallWorkingList[ip[1]].props)
        /\ CallWorkingList[ip[1]].props[ip[2]].val.kind = "list"}

NameAt(ip) == CallWorkingList[ip[1]].name
KeyAt(ip) == CallWorkingList[ip[1]].props[ip[2]].key
ListBefore(ip) == CallWorkingList[ip[1]].props[ip[2]].val.items
ListAfter(ip) == call.res.ret.items[ip[1]].props[ip[2]].val.items

\* every temp_mismatch entry of the verdict for the material carries a value
MismatchesCarryValue(name) ==
    \A k \in 1..Len(MismatchFor(name)) :
        \A j \in 1..Len(MismatchFor(name)[k].bad) : MismatchFor(name)[k].bad[j].value # None

\* C9 (amended): after a successful verification, no list-valued property of a
\* material holds an entry whose `value` or `<F>_value` equals a numeric value
\* flagged incorrect, for that material's name, under a family F that the
\* property key contains case-insensitively; the entries left are entries of
\* the original list in their original order, and they are all the entries
\* not so flagged when the verdict has no temp_mismatch flag for the material.
C9_IncorrectValuesRemoved ==
    CallSucceeded =>
        /\ Len(call.res.ret.items) = Len(CallWorkingList)
        /\ \A ip \in ListProps :
            /\ \A x \in 1..Len(ListAfter(ip)) :
                ~FlaggedIncorrect(ListAfter(ip)[x], KeyAt(ip), IncorrectFor(NameAt(ip)))
            /\ IsSubsequence(ListAfter(ip), ListBefore(ip))
            /\ MismatchFor(NameAt(ip)) = <<>> =>
                ListAfter(ip) =
                    SelectSeq(ListBefore(ip),
                              LAMBDA v : ~FlaggedIncorrect(v, KeyAt(ip), IncorrectFor(NameAt(ip))))

\* a list lost an entry flagged incorrect and kept another one
C9_Witness ==
    /\ CallSucceeded
    /\ \E ip \in ListProps :
        /\ MismatchFor(NameAt(ip)) = <<>>
        /\ IncorrectFor(NameAt(ip)) # <<>>
        /\ Len(ListAfter(ip)) < Len(ListBefore(ip))
        /\ ListAfter(ip) # <<>>

\* C9 as stated: after a successful verification every list-valued property
\* holds, in their original order, exactly the entries that no incorrect flag
\* hits (checked for verdicts whose temp_mismatch entries all carry a value).
C9_AllOtherEntriesKept ==
    CallSucceeded =>
        \A ip \in ListProps :
            MismatchesCarryValue(NameAt(ip)) =>
                ListAfter(ip) =
                    SelectSeq(ListBefore(ip),
                              LAMBDA v : ~FlaggedIncorrect(v, KeyAt(ip), IncorrectFor(NameAt(ip))))

\* C10: after a successful verification, the entries removed from a list-valued
\* property (besides those flagged incorrect) are exactly those whose `value`
\* or `<F>_value` equals the value of a temp_mismatch entry flagged under a
\* family F that the property key contains; a flagged entry that carries no
\* value removes nothing.
C10_MismatchedValuesRemoved ==
    CallSucceeded =>
        \A ip \in ListProps :
            ListAfter(ip) =
                SelectSeq(ListBefore(ip),
                          LAMBDA v :
                              /\ ~FlaggedIncorrect(v, KeyAt(ip), IncorrectFor(NameAt(ip)))
                              /\ ~FlaggedMismatch(v, KeyAt(ip), MismatchFor(NameAt(ip))))

\* the lines of the audit block the call wrote
CallLines == call.res.audit_log[1].lines

\* the list-valued properties of mat that the family name key selects hold a
\* Measurement whose `value` or `<key>_value` is val
HitsEntry(mat, key, val) ==
    \E p \in 1..Len(mat.props) :
        /\ mat.props[p].val.kind = "list"
        /\ Contains(Lower(mat.props[p].key), Lower(key))
        /\ \E x \in 1..Len(mat.props[p].val.items) :
            \/ mat.props[p].val.items[x].value = val
            \/ /\ mat.props[p].val.items[x].fam = key
               /\ mat.props[p].val.items[x].fvalue = val

\* the values removed as incorrect: <<i, k, val>> when val is flagged under the
\* k-th family of the incorrect flags of the i-th material and matched a
\* Measurement of that material
RemovedValues ==
    {ikv \in (1..Len(CallWorkingList)) \X (1..2) \X Vals :
        /\ ikv[2] <= Len(IncorrectFor(CallWorkingList[ikv[1]].name))
        /\ \E j \in 1..Len(IncorrectFor(CallWorkingList[ikv[1]].name)[ikv[2]].bad) :
            IncorrectFor(CallWorkingList[ikv[1]].name)[ikv[2]].bad[j] = ikv[3]
        /\ HitsEntry(CallWorkingList[ikv[1]],
                     IncorrectFor(CallWorkingList[ikv[1]].name)[ikv[2]].key, ikv[3])}

\* C11: a successful verification writes exactly one [removed] line per value
\* removed as incorrect: as many [removed] lines as values that were flagged
\* incorrect for a material and matched a Measurement of it, and every
\* [removed] line names such a value.
C11_OneRemovedLinePerRemovedValue ==
    CallSucceeded =>
        /\ Cardinality({x \in 1..Len(CallLines) : CallLines[x].tag = "removed"})
               = Cardinality(RemovedValues)
        /\ \A x \in 1..Len(CallLines) :
            CallLines[x].tag = "removed" =>
                \E ikv \in RemovedValues :
                    /\ CallWorkingList[ikv[1]].name = CallLines[x].name
                    /\ IncorrectFor(CallLines[x].name)[ikv[2]].key = CallLines[x].key
                    /\ ikv[3] = CallLines[x].val

\* the materials a bundle passed to the call holds
InputMaterials(block) ==
    IF block.shape = "dict" /\ block.mats = "list" THEN block.items ELSE <<>>

\* the materials of the three bundles of the call, in the order thermo,
\* structure, table
CallInputMaterials ==
    InputMaterials(call.thermo_json) \o InputMaterials(call.structure_json)
        \o InputMaterials(call.table_json)

\* the property keys of a material, in order
KeysOf(mat) == [p \in 1..Len(mat.props) |-> mat.props[p].key]

\* C12: a successful verification returns one material per material of the
\* thermo, structure and table bundles, in that order: the i-th returned
\* material has the name and the property keys of the i-th input material,
\* whether names repeat across bundles or a material lost all the values of a
\* list.
C12_ReturnsEveryMaterialInOrder ==
    CallSucceeded =>
        /\ call.res.ret.shape = "dict"
        /\ call.res.ret.mats = "list"
        /\ Len(call.res.ret.items) = Len(CallInputMaterials)
        /\ \A i \in 1..Len(CallInputMaterials) :
            /\ call.res.ret.items[i].dict
            /\ call.res.ret.items[i].name = CallInputMaterials[i].name
            /\ KeysOf(call.res.ret.items[i]) = KeysOf(CallInputMaterials[i])

\* three bundles held a material of the same name, and the thermo one lost
\* every entry of every list
C12_Witness ==
    /\ CallSucceeded
    /\ Len(CallInputMaterials) = 3
    /\ \A i \in 1..3 : CallInputMaterials[i].name = "A"
    /\ CallInputMaterials[1].props[1].val.items # <<>>
    /\ \A p \in 1..Len(call.res.ret.items[1].props) :
        call.res.ret.items[1].props[p].val.items = <<>>

\* a bundle passed to the call is absent or holds an empty `materials` list
AbsentOrEmpty(block) ==
    \/ block.shape = "none"
    \/ block.shape = "dict" /\ block.mats = "list" /\ block.items = <<>>

\* C13: when every bundle passed to verification is absent or has an empty
\* `materials`, the call returns {materials: [], deleted: [], notes: "No
\* materials to judge."} without invoking the capability and without appending
\* to the audit or the error log.
C13_NothingToJudge ==
    (/\ CallDone
     /\ AbsentOrEmpty(call.thermo_json)
     /\ AbsentOrEmpty(call.structure_json)
     /\ AbsentOrEmpty(call.table_json)) =>
        /\ call.res.outcome = "return"
        /\ call.res.ret.shape = "dict"
        /\ call.res.ret.mats = "list"
        /\ call.res.ret.items = <<>>
        /\ call.res.ret.notes = "No materials to judge."
        /\ ~call.res.invoked
        /\ audit_log = <<>>
        /\ error_log = <<>>
        /\ saved.judge_llm_output = NoSaved(ArrayVerdict)

\* a call with an empty thermo bundle, no structure bundle and an empty table
\* bundle is over, the capability being one that would have raised
C13_Witness ==
    /\ CallDone
    /\ call.thermo_json = Bundle(<<>>)
    /\ call.structure_json = NoneBundle
    /\ call.table_json = Bundle(<<>>)
    /\ call.llm.raises

(***************************************************************************)
(* Further properties of the runs of extract_properties (specification     *)
(* Spec).                                                                  *)
(***************************************************************************)
\* the calls of a stage's method in this run
CallsOf(stage) == {i \in 1..Len(returned) : returned[i].stage = stage}

\* the table-extraction stage returned a bundle whose `materials` is a list
\* of at least one material
TableStageProducedMaterial ==
    \E i \in CallsOf("table") :
        /\ returned[i].outcome = "return"
        /\ returned[i].bundle.shape = "dict"
        /\ returned[i].bundle.mats = "list"
        /\ returned[i].bundle.items # <<>>

\* C14: once Write_json has run, t.json holds the thermo output that
\* Judge_verification left (the value verification returned, when it
\* returned), s.json holds the bundle structural extraction returned, and
\* tables_output.json exists if and only if Extract_table_JSON ran and
\* returned a bundle with at least one material.
C14_WritesArtifacts ==
    Ran("Write_json") =>
        /\ files.t_json = Written(state.thermo)
        /\ \A i \in CallsOf("judge") :
            returned[i].outcome = "return" => files.t_json.data = returned[i].bundle
        /\ files.s_json = Written(ReturnedBundle("structure"))
        /\ files.tables_output_json.exists
            <=> (Ran("Extract_table_JSON") /\ TableStageProducedMaterial)
        /\ files.tables_output_json.exists
            => files.tables_output_json.data = state.table_json_output

\* no item occurs twice in the list
NoDuplicates(names) ==
    \A i, j \in 1..Len(names) : names[i] = names[j] => i = j

\* the items of a list, as a set
Items(names) == {names[i] : i \in 1..Len(names)}

\* the list candidate discovery returned in this run
CandidateList ==
    (CHOOSE e \in {returned[i] : i \in CallsOf("materials")} : e.outcome = "return").names

\* the `name` of every material of the bundle thermo extraction returned
ThermoBundleNames ==
    [i \in 1..Len(ReturnedBundle("thermo").items) |-> ReturnedBundle("thermo").items[i].name]

\* C15: the hint structural extraction is called with starts with the
\* candidate list, holds no name twice, holds exactly the candidate names and
\* the non-empty names of the thermo bundle's materials, in the order of the
\* candidate list followed by the thermo names; table extraction is called
\* with the same hint.
C15_StructureHintIsUnion ==
    /\ \A i \in CallsOf("structure") :
        /\ NoDuplicates(returned[i].hint)
        /\ IsPrefix(CandidateList, returned[i].hint)
        /\ Items(returned[i].hint) = Items(CandidateList) \cup (Items(ThermoBundleNames) \ {""})
        /\ IsSubsequence(returned[i].hint, CandidateList \o ThermoBundleNames)
    /\ \A i \in CallsOf("table") :
        \E j \in CallsOf("structure") : returned[i].hint = returned[j].hint

\* the thermo bundle repeated a candidate name and brought a new one, and
\* table extraction was called
C15_Witness ==
    /\ CallsOf("table") # {}
    /\ \E i \in CallsOf("structure") :
        /\ Len(returned[i].hint) > Len(CandidateList)
        /\ Len(returned[i].hint) < Len(CandidateList) + Len(ThermoBundleNames)
        /\ Items(ThermoBundleNames) \cap Items(CandidateList) # {}

\* C16: in a run over a paper from which no table is collected the capability
\* is never invoked for table extraction and Extract_table_JSON does not run
\* (the table bundle stays None) or leaves the empty bundle; and
\* extract_from_tables called with an empty table_data returns {materials: []}
\* without invoking the capability, whatever the capability would answer.
C16_NoTablesNoTableInvocation ==
    /\ (pc # "idle" /\ TablesFound = <<>>) =>
        /\ \A i \in 1..Len(invoked) : invoked[i].stage # "table"
        /\ CallsOf("table") = {}
        /\ IF Ran("Extract_table_JSON")
           THEN state.table_json_output = Bundle(<<>>)
           ELSE state.table_json_output = NoneBundle
    /\ \A llm \in TableResponses :
        /\ extract_from_tables(<<>>, llm, saved.table_data_extraction_llm_output).ret
              = Bundle(<<>>)
        /\ ~extract_from_tables(<<>>, llm, saved.table_data_extraction_llm_output).invoked

\* a run over a folder whose only table fails to load went through
\* verification to END
C16_Witness ==
    /\ pc = "END"
    /\ paper.tables # <<>>
    /\ TablesFound = <<>>
    /\ Ran("Judge_verification")

\* the node that calls the method of a stage
NodeOf(stage) ==
    CASE stage = "materials" -> "Find_materials"
      [] stage = "thermo" -> "Thermoelectric_prop"
      [] stage = "structure" -> "Structural_prop"
      [] stage = "table" -> "Extract_table_JSON"
      [] OTHER -> "Judge_verification"

\* the call numbered i is the last thing the run did: it ended with an error
\* in the node of that call, and nothing was written
AbortedAt(i) ==
    /\ returned[i].outcome = "raise"
    /\ i = Len(returned)
    /\ pc = "error"
    /\ LastStage = NodeOf(returned[i].stage)
    /\ files = NoFiles

\* C17: when robust_json_parse fails on the response of a stage: in candidate
\* discovery, thermo extraction and structural extraction the run ends with an
\* error in that stage and nothing is written; in table extraction the method
\* returns {materials: []} and the run goes on to Judge_verification and
\* Write_json without error; in verification the method returns the working
\* list as fallback and the run goes on to Write_json without error.
C17_ParsingFailurePerStage ==
    \A i \in 1..Len(returned) :
        returned[i].error = "JSONParsingError" =>
            /\ returned[i].stage \in {"materials", "thermo", "structure"} => AbortedAt(i)
            /\ returned[i].stage = "table" =>
                /\ returned[i].outcome = "return"
                /\ returned[i].bundle = Bundle(<<>>)
                /\ pc \in {"Judge_verification", "Write_json", "END"}
                /\ pc = "Write_json" => ENABLED _write_node
            /\ returned[i].stage = "judge" =>
                /\ returned[i].outcome = "return"
                /\ returned[i].bundle = Bundle(WorkingList)
                /\ state.thermo = Bundle(WorkingList)
                /\ pc \in {"Write_json", "END"}
                /\ pc = "Write_json" => ENABLED _write_node

\* a run whose table response did not parse reached END with its files written
C17_Witness ==
    /\ pc = "END"
    /\ files.t_json.exists
    /\ \E i \in CallsOf("table") : returned[i].error = "JSONParsingError"

\* C18: when llm.invoke raises: in candidate discovery, thermo, structural and
\* table extraction the run ends with an error in that stage; in verification
\* the run goes on to Write_json.
C18_CapabilityErrorAbortsExtraction ==
    \A i \in 1..Len(returned) :
        returned[i].error = "capability" =>
            /\ returned[i].stage \in {"materials", "thermo", "structure", "table"} =>
                AbortedAt(i)
            /\ returned[i].stage = "judge" => pc \in {"Write_json", "END"}

\* C19: every value returned by thermo extraction, structural extraction,
\* table extraction and verification is a mapping whose `materials` is a list.
C19_ReturnsAreBundles ==
    \A i \in 1..Len(returned) :
        (/\ returned[i].stage \in {"thermo", "structure", "table", "judge"}
         /\ returned[i].outcome = "return") =>
            /\ returned[i].bundle.shape = "dict"
            /\ returned[i].bundle.mats = "list"

\* C20: the list candidate discovery returns holds at most MAX_MATERIALS names.
C20_CandidatesCapped ==
    \A i \in CallsOf("materials") :
        returned[i].outcome = "return" => Len(returned[i].names) <= MAX_MATERIALS

\* the items of the `materials` array of the discovery response this run used
DiscoveryItems == saved.materials_extraction_llm_output.content.val.items

\* the place of the first string item of the array whose trimmed text is name
FirstOccurrence(items, name) ==
    CHOOSE i \in 1..Len(items) :
        /\ items[i].isstr /\ items[i].s = name
        /\ \A j \in 1..(i - 1) : ~(items[j].isstr /\ items[j].s = name)

\* C21: the list candidate discovery returns holds only non-empty strings, each
\* the trimmed text of a string item of the `materials` array, none twice, in
\* the order of their first occurrence in the array; every string item with a
\* non-empty trimmed text is in it: only non-strings and empty entries are dropped.
C21_CandidateListIsClean ==
    \A i \in CallsOf("materials") :
        (returned[i].outcome = "return" /\ saved.materials_extraction_llm_output.present) =>
            LET names == returned[i].names
                items == DiscoveryItems
            IN  /\ \A k \in 1..Len(names) :
                    /\ names[k] # ""
                    /\ \E j \in 1..Len(items) : items[j].isstr /\ items[j].s = names[k]
                /\ NoDuplicates(names)
                /\ \A j \in 1..Len(items) :
                    (items[j].isstr /\ items[j].s # "") => items[j].s \in Items(names)
                /\ \A k \in 1..(Len(names) - 1) :
                    FirstOccurrence(items, names[k]) < FirstOccurrence(items, names[k + 1])

\* discovery returned B, A from an array with a padded B, a number, a second B,
\* an empty string and A
C21_Witness ==
    /\ CallsOf("materials") # {}
    /\ saved.materials_extraction_llm_output.present
    /\ Len(DiscoveryItems) = 5
    /\ \E j \in 1..Len(DiscoveryItems) : DiscoveryItems[j].pad
    /\ \E j \in 1..Len(DiscoveryItems) : ~DiscoveryItems[j].isstr
    /\ CandidateList = <<"B", "A">>

\* the budget the specification gives for a total row count
SpecifiedBudget(rows) ==
    IF rows = 0 THEN 1024
    ELSE IF 1024 + rows * 325 <= 10240 THEN 1024 + rows * 325 ELSE 10240

FirstMissing(tables) ==
    CHOOSE m \in 1..(Len(tables) + 1) :
        /\ m = Len(tables) + 1 \/ ~tables[m].csv \/ ~tables[m].caption
        /\ \A i \in 1..(m - 1) : tables[i].csv /\ tables[i].caption

\* C23: Plan_table_tokens reads the tables in the order of their indices and
\* stops at the first index whose csv or caption file is missing: no table of
\* that or a higher index is read; below it, exactly the tables that load are
\* read, a table that fails to load being left out without stopping.
C23_EnumerationStopsAtFirstGap ==
    Ran("Plan_table_tokens") =>
        LET m == FirstMissing(paper.tables)
            td == state.table_data
        IN  /\ \A k \in 1..Len(td) :
                /\ td[k].filename < m
                /\ paper.tables[td[k].filename].loads
                /\ td[k].row_count = paper.tables[td[k].filename].rows
            /\ \A k \in 1..(Len(td) - 1) : td[k].filename < td[k + 1].filename
            /\ \A i \in 1..(m - 1) :
                paper.tables[i].loads => \E k \in 1..Len(td) : td[k].filename = i

\* table 2 has no csv file: table 1 was read, table 3, whose files exist, was not
C23_Witness ==
    /\ Ran("Plan_table_tokens")
    /\ Len(paper.tables) = 3
    /\ FirstMissing(paper.tables) = 2
    /\ paper.tables[3].csv /\ paper.tables[3].caption
    /\ Len(state.table_data) = 1

(***************************************************************************)
(* Properties of robust_json_parse (specification SpecParse).              *)
(***************************************************************************)
ParseDone == call.op = "robust_json_parse" /\ call.done

\* C24: for every text that is a strict JSON document, robust_json_parse
\* returns the value the strict decoder returns for that text.
C24_StrictJsonUnchanged ==
    (ParseDone /\ json_loads(call.text).ok) =>
        /\ call.res.ok
        /\ call.res.val = json_loads(call.text).val

\* what the three decoders do on the text robust_json_parse hands them
C25_Order(res, strict, relaxed, literal) ==
    /\ strict.ok => res = Parsed("json.loads", strict.val)
    /\ (~strict.ok /\ relaxed.ok) => res = Parsed("json5.loads", relaxed.val)
    /\ (~strict.ok /\ ~relaxed.ok /\ literal.ok) => res = Parsed("ast.literal_eval", literal.val)
    /\ (~strict.ok /\ ~relaxed.ok /\ ~literal.ok) =>
        /\ ~res.ok
        /\ res.error = "JSONParsingError"

\* C25: robust_json_parse returns what the first of json.loads, json5.loads and
\* ast.literal_eval, in this order, that succeeds on the rewritten text
\* returns; when all three fail it raises JSONParsingError and returns nothing,
\* the empty bundle included.
C25_DecodersInOrder ==
    ParseDone =>
        C25_Order(call.res, json_loads(Rewritten(call.text)), json5_loads(Rewritten(call.text)),
                  literal_eval(Rewritten(call.text)))

\* json.loads and json5.loads failed on [True], ast.literal_eval returned the list
C25_Witness ==
    /\ ParseDone
    /\ call.text = Brackets(<<"T", "r", "u", "e">>)
    /\ call.res.by = "ast.literal_eval"
    /\ call.res.val = JList(<<JBool(TRUE)>>)

(***************************************************************************)
(* Properties of the merge of compile_table.py (specification SpecMerge).  *)
(***************************************************************************)
MergeDone == call.op = "merge_values" /\ call.done
CompileDone == call.op = "compile_table" /\ call.done

\* the materials of the t.json of the call and the records the merge made of them
CompileInput == MaterialsOf(call.data)
CompileOutput == call.compiled.merged_materials

\* character i of s stays when a name is trimmed and its runs of whitespace
\* are collapsed: it is no whitespace, or it opens a run inside the name
StaysInName(s, i) ==
    \/ s[i] \notin Whitespace
    \/ /\ i > 1
       /\ s[i - 1] \notin Whitespace
       /\ \E j \in (i + 1)..Len(s) : s[j] \notin Whitespace

\* s trimmed, with every run of whitespace inside it collapsed to one space
Collapsed(s) ==
    LET stay == SelectSeq([i \in 1..Len(s) |-> i], LAMBDA i : StaysInName(s, i))
    IN  [n \in 1..Len(stay) |-> IF s[stay[n]] \in Whitespace THEN " " ELSE s[stay[n]]]

\* the normalized name of an item of the materials: empty for an item that is
\* no mapping and for a name that is missing or no string
NormalName(mat) ==
    IF mat.k = "dict" /\ Get(mat.items, NameKey).k = "str"
    THEN Collapsed(Get(mat.items, NameKey).s) ELSE <<>>

\* the output records that have a name, and the input materials of a name
NamedRecords == {j \in 1..Len(CompileOutput) : NormalName(CompileOutput[j]) # <<>>}
Group(name) == {i \in 1..Len(CompileInput) : NormalName(CompileInput[i]) = name}

\* C26: the merge makes one output record of the materials whose names are
\* equal after trimming and collapsing whitespace: no two named output records
\* have the same normalized name, there are as many named output records as
\* distinct non-empty normalized names in the input, and a record made of
\* several materials is named by the normalized name.
C26_OneRecordPerName ==
    CompileDone =>
        /\ \A i, j \in NamedRecords :
            NormalName(CompileOutput[i]) = NormalName(CompileOutput[j]) => i = j
        /\ Cardinality(NamedRecords) =
           Cardinality({NormalName(CompileInput[i]) : i \in 1..Len(CompileInput)} \ {<<>>})
        /\ \A j \in NamedRecords :
            Cardinality(Group(NormalName(CompileOutput[j]))) >= 2 =>
                Get(CompileOutput[j].items, NameKey) = JStr(NormalName(CompileOutput[j]))

\* two materials whose names differ in whitespace only became one record
C26_Witness ==
    /\ CompileDone
    /\ Len(CompileInput) = 2
    /\ Get(CompileInput[1].items, NameKey) # Get(CompileInput[2].items, NameKey)
    /\ NormalName(CompileInput[1]) = <<"A", " ", "B">>
    /\ NormalName(CompileInput[2]) = <<"A", " ", "B">>
    /\ Len(CompileOutput) = 1
    /\ Get(CompileOutput[1].items, NameKey) = JStr(<<"A", " ", "B">>)

\* C27: every output record with a non-empty normalized name has exactly that
\* normalized name in its `name` field.
C27_NameIsNormalized ==
    CompileDone =>
        \A j \in NamedRecords :
            Get(CompileOutput[j].items, NameKey) = JStr(NormalName(CompileOutput[j]))

\* the items of a list without the items equal to an earlier one
RECURSIVE KeepFirst(_, _, _)
KeepFirst(items, i, out) ==
    IF i > Len(items) THEN out
    ELSE IF \E n \in 1..Len(out) : out[n] = items[i] THEN KeepFirst(items, i + 1, out)
    ELSE KeepFirst(items, i + 1, Append(out, items[i]))

\* C28: merge_values of two lists is their concatenation without the items
\* equal to an earlier item: every item of either list is in it exactly once,
\* in the order of the first occurrences.
C28_ListsConcatDedup ==
    (MergeDone /\ call.a.k = "list" /\ call.b.k = "list") =>
        call.res = JList(KeepFirst(call.a.items \o call.b.items, 1, <<>>))

\* C29: merge_values(null, v) = v and merge_values(v, null) = v; and a key that
\* is non-null in one material of a group and null or absent in the others
\* has that non-null value in the merged record, wherever in the group the
\* material stands.
C29_NullIsIdentity ==
    /\ MergeDone =>
        /\ call.a = JNull => call.res = call.b
        /\ call.b = JNull => call.res = call.a
    /\ CompileDone =>
        \A j \in NamedRecords :
            \A key \in {CompileOutput[j].items[n].s : n \in 1..Len(CompileOutput[j].items)}
                       \ {NameKey} :
                LET holders == {i \in Group(NormalName(CompileOutput[j])) :
                                   Get(CompileInput[i].items, key) # JNull}
                IN  Cardinality(holders) = 1 =>
                        Get(CompileOutput[j].items, key) =
                        Get(CompileInput[CHOOSE i \in holders : TRUE].items, key)

\* the key x is null in the first material of the group and "v" in the second:
\* the merged record has "v"
C29_Witness ==
    /\ CompileDone
    /\ Len(CompileInput) = 2
    /\ Group(<<"A">>) = {1, 2}
    /\ Get(CompileInput[1].items, <<"x">>) = JNull
    /\ Get(CompileInput[2].items, <<"x">>) = Text("v")
    /\ Len(CompileOutput) = 1
    /\ Get(CompileOutput[1].items, <<"x">>) = Text("v")

\* a string, a number or a boolean, and its type
IsScalar(v) == v.k \in {"str", "num", "true", "false"}
ScalarType(v) == IF v.k \in {"true", "false"} THEN "bool" ELSE v.k

\* C30: merge_values of two non-null scalars of the same type is the first;
\* a key whose non-null values in a group are scalars of one type has, in the
\* merged record, the value of the first material of the group in which it is
\* non-null.
C30_FirstScalarWins ==
    /\ (MergeDone /\ IsScalar(call.a) /\ IsScalar(call.b)
                  /\ ScalarType(call.a) = ScalarType(call.b)) => call.res = call.a
    /\ CompileDone =>
        \A j \in NamedRecords :
            \A key \in {CompileOutput[j].items[n].s : n \in 1..Len(CompileOutput[j].items)}
                       \ {NameKey} :
                LET holders == {i \in Group(NormalName(CompileOutput[j])) :
                                   Get(CompileInput[i].items, key) # JNull}
                    first == CHOOSE i \in holders : \A h \in holders : i <= h
                IN  (/\ holders # {}
                     /\ \A h \in holders :
                         /\ IsScalar(Get(CompileInput[h].items, key))
                         /\ ScalarType(Get(CompileInput[h].items, key)) =
                            ScalarType(Get(CompileInput[first].items, key))) =>
                        Get(CompileOutput[j].items, key) = Get(CompileInput[first].items, key)

\* x is "w" in the first material of the group and "v" in the second: the
\* merged record keeps "w"
C30_Witness ==
    /\ CompileDone
    /\ Len(CompileInput) = 2
    /\ Group(<<"A">>) = {1, 2}
    /\ Get(CompileInput[1].items, <<"x">>) = Text("w")
    /\ Get(CompileInput[2].items, <<"x">>) = Text("v")
    /\ Len(CompileOutput) = 1
    /\ Get(CompileOutput[1].items, <<"x">>) = Text("w")

\* the data of a t.json with the given materials
DataOf(materials) == JDict(<<JPair(MaterialsKey, JList(materials))>>)

\* C31: the merged materials of L followed by a copy of L are the merged
\* materials of L, and merge_values(v, v) = v.
C31_MergeIdempotent ==
    /\ (MergeDone /\ call.a = call.b) => call.res = call.a
    /\ CompileDone =>
        compile_table(DataOf(CompileInput \o CompileInput)).merged_materials = CompileOutput

\* the materials of the input, mappings, whose normalized name is empty
Unnamed == SelectSeq(CompileInput, LAMBDA m : m.k = "dict" /\ NormalName(m) = <<>>)

\* the first material of the input with the normalized name of record j
FirstOfGroup(j) ==
    CHOOSE i \in Group(NormalName(CompileOutput[j])) :
        \A h \in Group(NormalName(CompileOutput[j])) : i <= h

\* C32: the materials whose normalized name is empty (name missing, no string
\* or only whitespace) are the last records of the output, each unchanged, in
\* input order; before them come the named records, in the order in which
\* their normalized names are first met in the input.
C32_UnnamedCarriedThrough ==
    CompileDone =>
        LET named == Len(CompileOutput) - Len(Unnamed)
        IN  /\ named >= 0
            /\ NamedRecords = 1..named
            /\ \A n \in 1..Len(Unnamed) : CompileOutput[named + n] = Unnamed[n]
            /\ \A j \in 1..(named - 1) : FirstOfGroup(j) < FirstOfGroup(j + 1)

\* a material with a number as name, a named one and one without a name: the
\* named record comes first, then the two others as they were, in input order
C32_Witness ==
    /\ CompileDone
    /\ Len(CompileInput) = 3
    /\ Get(CompileInput[1].items, NameKey) = Num(1)
    /\ NormalName(CompileInput[2]) = <<"B">>
    /\ CompileInput[3] = OneKey("x", Text("w"))
    /\ CompileOutput = <<CompileInput[2], CompileInput[1], CompileInput[3]>>

\* x and y are equal values: mappings are equal when they have the same keys
\* with equal values, in whatever order
RECURSIVE SameValue(_, _)
SameValue(x, y) ==
    /\ x.k = y.k
    /\ IF x.k = "dict"
       THEN /\ {x.items[n].s : n \in 1..Len(x.items)} = {y.items[n].s : n \in 1..Len(y.items)}
            /\ \A n \in 1..Len(x.items) :
                SameValue(x.items[n].items[1], Get(y.items, x.items[n].s))
       ELSE IF x.k = "list"
       THEN /\ Len(x.items) = Len(y.items)
            /\ \A n \in 1..Len(x.items) : SameValue(x.items[n], y.items[n])
       ELSE x.s = y.s

\* the items of a list without the items equal, as values, to an earlier one
RECURSIVE KeepFirstOfEqual(_, _, _)
KeepFirstOfEqual(items, i, out) ==
    IF i > Len(items) THEN out
    ELSE IF \E n \in 1..Len(out) : SameValue(out[n], items[i])
    THEN KeepFirstOfEqual(items, i + 1, out)
    ELSE KeepFirstOfEqual(items, i + 1, Append(out, items[i]))

\* C34: the deduplication of the merge of two lists drops an item exactly when
\* an equal item comes earlier in the concatenation: items that are not equal
\* are both kept, equal mappings are reduced to one whatever their key order.
C34_DedupByStructuralEquality ==
    (MergeDone /\ call.a.k = "list" /\ call.b.k = "list") =>
        call.res = JList(KeepFirstOfEqual(call.a.items \o call.b.items, 1, <<>>))

\* C40: merging the merged materials of L again yields the same records, in
\* the same order.
C40_MergeFixedPoint ==
    CompileDone =>
        compile_table(DataOf(CompileOutput)).merged_materials = CompileOutput

\* the output holds a record made of two materials, a record that kept its raw
\* name and a material without a name; merging it again changes nothing
C40_Witness ==
    /\ CompileDone
    /\ Len(CompileInput) = 3
    /\ Group(<<"A">>) = {1, 2}
    /\ Get(CompileInput[1].items, NameKey) = JStr(<<" ", "A", " ">>)
    /\ Len(CompileOutput) = 2
    /\ Get(CompileOutput[1].items, NameKey) = Text("A")
    /\ CompileOutput[2] = OneKey("x", Text("w"))

(***************************************************************************)
(* Properties of the saved responses (specification Spec).                 *)
(***************************************************************************)
Stages == {"materials", "thermo", "structure", "table", "judge"}

\* the saved response of a stage
SavedOf(stage) ==
    CASE stage = "materials" -> saved.materials_extraction_llm_output
      [] stage = "thermo" -> saved.thermo_properties_extraction_llm_output
      [] stage = "structure" -> saved.structure_properties_extraction_llm_output
      [] stage = "table" -> saved.table_data_extraction_llm_output
      [] OTHER -> saved.judge_llm_output

\* the step is a call of the method of the stage
StageCalled(stage) ==
    /\ Len(returned') = Len(returned) + 1
    /\ returned'[Len(returned')].stage = stage

\* a capability that raises when it is asked
DeadCapability(stage) == IF stage = "judge" THEN Raises(ArrayVerdict) ELSE Raises(NoneBundle)

\* how the call of the stage ends in this state with the capability llm: its
\* outcome, the names or the bundle it returns
EndsAs(stage, llm) ==
    CASE stage = "materials" ->
            LET r == extract_material_candidates(llm, SavedOf(stage), MAX_MATERIALS)
            IN  <<r.outcome, r.error, r.ret, NoneBundle>>
      [] stage = "thermo" ->
            LET r == extract_thermo_properties(llm, SavedOf(stage))
            IN  <<r.outcome, r.error, <<>>, r.ret>>
      [] stage = "structure" ->
            LET r == extract_structural_properties(llm, SavedOf(stage))
            IN  <<r.outcome, r.error, <<>>, r.ret>>
      [] stage = "table" ->
            LET r == extract_from_tables(state.table_data, llm, SavedOf(stage))
            IN  <<r.outcome, r.error, <<>>, r.ret>>
      [] OTHER ->
            LET r == judge_verify_properties(state.thermo, state.structure,
                                             state.table_json_output, llm,
                                             Basename(state.folder), SavedOf(stage))
            IN  <<r.outcome, r.error, <<>>, r.ret>>

\* the call of the stage gets as far as the capability step
ReachesCapability(stage) ==
    stage = "judge" =>
        /\ ~MergeRaises(state.thermo)
        /\ ~MergeRaises(state.structure)
        /\ ~MergeRaises(state.table_json_output)
        /\ MergedMaterials(state.thermo, state.structure, state.table_json_output) # <<>>

\* a call of a stage whose saved response is present does not invoke the
\* capability, ends as it would with a capability that cannot answer, and
\* keeps the saved response
ReusesSaved(stage) ==
    LET e == returned'[Len(returned')]
    IN  /\ invoked' = invoked
        /\ SavedOf(stage)' = SavedOf(stage)
        /\ <<e.outcome, e.error, e.names, e.bundle>> = EndsAs(stage, DeadCapability(stage))

\* a call of a stage without a saved response invokes the capability once,
\* for that stage
InvokesCapability(stage) ==
    /\ Len(invoked') = Len(invoked) + 1
    /\ invoked'[Len(invoked')].stage = stage
    /\ SubSeq(invoked', 1, Len(invoked)) = invoked

SavedStep ==
    /\ \A stage \in Stages :
        StageCalled(stage) =>
            IF SavedOf(stage).present THEN ReusesSaved(stage)
            ELSE ReachesCapability(stage) => InvokesCapability(stage)
    /\ (pc' = pc) => \A stage \in Stages : ~SavedOf(stage)'.present

\* C33: while the saved response of a stage is present, a call of the stage
\* reuses it and does not invoke the capability, whatever text, tables or hint
\* the run gives it; reset() (the one step between two runs) leaves no stage
\* with a saved response, and a call of a stage without a saved response that
\* gets to its capability step invokes the capability.
C33_SavedResponseReused == [][SavedStep]_vars

\* a whole run on an extractor that holds the saved responses of an earlier
\* run: all five stages were called and the capability was not invoked
C33_Witness ==
    /\ pc = "END"
    /\ invoked = <<>>
    /\ \A stage \in Stages : CallsOf(stage) # {}
    /\ files.t_json.exists

\* C35: the structure bundle written as s.json and the table bundle written
\* as tables_output.json are the bundles structural extraction and table
\* extraction returned, whatever the verdict of the verification flags.
C35_VerificationKeepsOtherOutputs ==
    (pc = "END" /\ LastStage = "Write_json") =>
        /\ files.s_json.exists /\ files.s_json.data = ReturnedBundle("structure")
        /\ files.tables_output_json.exists =>
            files.tables_output_json.data = ReturnedBundle("table")

(***************************************************************************)
(* Properties of the filtering of judge_verify_properties (specification   *)
(* SpecJudge).                                                             *)
(***************************************************************************)
\* the family a property list belongs to
FamilyOfKey(key) ==
    CASE key = zt_values -> ZT
      [] key = seebeck_coefficient -> S
      [] key = power_factor -> PF
      [] OTHER -> <<>>

\* the verdict flags a value, as incorrect or as temperature-mismatched, for
\* the material called name under the family F, in whatever letter case
FlagsFamily(name, F) ==
    \/ \E k \in 1..Len(IncorrectFor(name)) :
        Lower(IncorrectFor(name)[k].key) = Lower(F) /\ IncorrectFor(name)[k].bad # <<>>
    \/ \E k \in 1..Len(MismatchFor(name)) :
        Lower(MismatchFor(name)[k].key) = Lower(F) /\ MismatchFor(name)[k].bad # <<>>

\* C36: after a successful verification, a property list of a material for
\* which the verdict flags no value under the family of that list holds the
\* entries it held before: values flagged under another family remove nothing
\* from it.
C36_OnlyOwnFamilyRemoves ==
    CallSucceeded =>
        \A ip \in ListProps :
            ~FlagsFamily(NameAt(ip), FamilyOfKey(KeyAt(ip))) => ListAfter(ip) = ListBefore(ip)

\* the names the verdict flags as incorrect or as temperature-mismatched
NamedInVerdict == (DOMAIN CallVerdict.incorrect.by) \cup (DOMAIN CallVerdict.temp_mismatch.by)

\* the i-th returned material
MaterialAfter(i) == call.res.ret.items[i]

\* C37: a successful verification returns every material whose exact name is
\* not in the verdict's `incorrect` or `temp_mismatch` mapping as it was, and
\* of a material named there it changes nothing but the values of list-valued
\* top-level properties: the name, the keys, and every property whose value
\* is a string or a mapping (the doping mapping with its dopant list) are as
\* they were.
C37_OnlyFlaggedListsChange ==
    CallSucceeded =>
        /\ Len(call.res.ret.items) = Len(CallWorkingList)
        /\ \A i \in 1..Len(CallWorkingList) :
            /\ CallWorkingList[i].name \notin NamedInVerdict =>
                MaterialAfter(i) = CallWorkingList[i]
            /\ MaterialAfter(i).dict = CallWorkingList[i].dict
            /\ MaterialAfter(i).name = CallWorkingList[i].name
            /\ Len(MaterialAfter(i).props) = Len(CallWorkingList[i].props)
            /\ \A p \in 1..Len(CallWorkingList[i].props) :
                /\ MaterialAfter(i).props[p].key = CallWorkingList[i].props[p].key
                /\ CallWorkingList[i].props[p].val.kind # "list" =>
                    MaterialAfter(i).props[p].val = CallWorkingList[i].props[p].val

\* a material named in the verdict lost an entry of a list and kept its doping
\* mapping, while a material of another name, holding the same flagged number
\* in a list of the same key, came back as it was
C37_Witness ==
    /\ CallSucceeded
    /\ \E i, j \in 1..Len(CallWorkingList) :
        /\ CallWorkingList[i].name \in NamedInVerdict
        /\ CallWorkingList[j].name \notin NamedInVerdict
        /\ MaterialAfter(i) # CallWorkingList[i]
        /\ MaterialAfter(j) = CallWorkingList[j]
        /\ CallWorkingList[j].props[1].key = CallWorkingList[i].props[1].key
        /\ \E x \in 1..Len(CallWorkingList[j].props[1].val.items) :
            /\ CallWorkingList[j].props[1].val.items[x] \notin
                   {MaterialAfter(i).props[1].val.items[y] :
                        y \in 1..Len(MaterialAfter(i).props[1].val.items)}
            /\ CallWorkingList[j].props[1].val.items[x] \in
                   {CallWorkingList[i].props[1].val.items[y] :
                        y \in 1..Len(CallWorkingList[i].props[1].val.items)}
    /\ \E k \in 1..Len(CallWorkingList) :
        /\ Len(CallWorkingList[k].props) >= 2
        /\ CallWorkingList[k].props[2].val.kind = "map"
        /\ CallWorkingList[k].props[2].val.items # <<>>

(***************************************************************************)
(* Properties of runs on several papers with one extractor (specification  *)
(* Spec).                                                                  *)
(***************************************************************************)
\* the text of the paper of the run that goes into the prompt of a stage
PromptText(stage) == IF stage = "table" THEN NoText ELSE paper.fulltext

\* C38: when a run on a paper has written its bundles, every stage the run
\* called has invoked the capability in that run, with the text of that paper
\* and the hint of that call: the bundles written do not come from responses
\* obtained for an earlier paper.
C38_PapersIndependent ==
    (pc = "END" /\ LastStage = "Write_json") =>
        \A i \in 1..Len(returned) :
            \E k \in 1..Len(invoked) :
                invoked[k] = Invocation(returned[i].stage, PromptText(returned[i].stage),
                                        returned[i].hint)

\* the call of the stage that the step made returned normally with a parsed
\* result: it did not raise, did not fall back, and did not return the
\* empty-list note
ReturnedParsed(stage) ==
    LET e == returned'[Len(returned')]
    IN  /\ StageCalled(stage)
        /\ e.outcome = "return"
        /\ e.error = ""
        /\ e.bundle # NothingToJudge

\* a verification called with nothing to judge leaves the saved response of
\* the judge as it is, whatever the capability would answer
EmptyListNoteKeepsSaved ==
    \A llm \in PipelineJudgeResponses :
        LET r == judge_verify_properties(Bundle(<<>>), NoneBundle, NoMaterialsBundle, llm,
                                         Basename(state.folder), saved.judge_llm_output)
        IN  r.ret = NothingToJudge /\ r.saved = saved.judge_llm_output

SavedSetStep ==
    /\ \A stage \in Stages :
        /\ SavedOf(stage)' # SavedOf(stage) =>
            \/ pc' = pc /\ ~SavedOf(stage)'.present
            \/ /\ ReturnedParsed(stage)
               /\ SavedOf(stage)'.present
               /\ robust_json_parse(SavedOf(stage)'.content).ok
        /\ (StageCalled(stage) /\ ~ReturnedParsed(stage)) =>
            \A other \in Stages : SavedOf(other)' = SavedOf(other)
        /\ StageCalled(stage) =>
            \A other \in Stages \ {stage} : SavedOf(other)' = SavedOf(other)
    /\ StageCalled("judge") => EmptyListNoteKeepsSaved

\* C39: the saved response of a stage changes only in a call of the method of
\* that stage that returns normally with a parsed result (or in reset(), which
\* clears it): a call that raises, a table extraction that falls back to the
\* empty bundle, a verification that returns the fallback or the empty-list
\* note leave every saved response as it was, and a call of a stage leaves the
\* saved responses of the other stages as they were.
C39_SavedSetOnlyOnSuccess == [][SavedSetStep]_vars

\* a run in which table extraction fell back to the empty bundle and the
\* verification returned its fallback: neither has a saved response, the
\* three stages before them have theirs
C39_Witness ==
    /\ pc = "END"
    /\ \E i \in CallsOf("table") : returned[i].outcome = "return" /\ returned[i].error # ""
    /\ \E i \in CallsOf("judge") : returned[i].outcome = "return" /\ returned[i].error # ""
    /\ ~SavedOf("table").present
    /\ ~SavedOf("judge").present
    /\ SavedOf("materials").present /\ SavedOf("thermo").present /\ SavedOf("structure").present

====
